---- MODULE Spec2Model ----
(***************************************************************************)
(* Message lifecycle of the chat service (app/services/message_service.py, *)
(* app/services/group_service.py, app/api/messages.py).                    *)
(*                                                                         *)
(* The database is the shared state: committed message rows and committed  *)
(* group memberships.  Every request runs in a database session of its own *)
(* (app/db/session.py) and is a sequence of steps separated by awaits on   *)
(* the database: a step that loads a row keeps the loaded values in the    *)
(* session, a later commit writes the columns the session changed.  Steps  *)
(* of different requests interleave freely.  A commit, a flush and a       *)
(* refresh may fail (a storage failure raised by the driver).              *)
(***************************************************************************)
EXTENDS Integers, Sequences, FiniteSets, TLC

VARIABLES
    messages,   \* committed rows of table "messages": id -> row
    members,    \* committed rows of table "group_members": {<<group, user>>}
    events,     \* lifecycle events handed to realtime_service, in order
    proc,       \* the request each session is serving and where it stands
    nextId,     \* ids already given to constructed Message objects, plus one
    nreq,       \* number of requests accepted so far
    active_connections, \* websocket_routes.active_connections: group -> (user -> handle)
    conn,       \* every websocket: its handler's position and what it received
    last,       \* history: the _broadcast_to_group_ws call the latest step completed
    listing,    \* the history a client is paging through (list_messages)
    receipts    \* committed rows of table "message_read_status": {<<message, user>>}

corevars == <<messages, members, events, proc, nextId, nreq>>

wsvars == <<active_connections, conn, last>>

vars == <<messages, members, events, proc, nextId, nreq,
          active_connections, conn, last, listing, receipts>>

----------------------------------------------------------------------------
(* Bounds of the model *)

MaxMsgs == 4    \* message rows that may ever be constructed
MaxReqs == 2    \* requests that may ever be accepted
MaxConns == 3   \* websockets that may ever be opened
MaxSends == 1   \* messages that may be sent while connections are live
MaxRows == 3    \* messages stored before a history is listed
MaxStamp == 2   \* the latest created_at, in microseconds
MaxLimit == 2   \* the largest `limit` a client asks for
MaxMarks == 2   \* the longest list of message ids given to mark_read

----------------------------------------------------------------------------
(* Principals, groups and inputs *)

Procs == {"s1", "s2"}

Users == {"admin", "bob", "carol"}

Groups == {"default", "g2"}

DefaultGroup == "default"

None == "none"

Role == [u \in Users |-> IF u = "admin" THEN "admin" ELSE "user"]

is_admin(u) == Role[u] = "admin"

\* schemas/auth.py, CurrentUser: the caller as the service functions get it.
\* The name stands for user_id and username alike.
CurrentUser(u, role) == [user_id |-> u, role |-> role]

\* The CurrentUser of user u whose role is Role[u].
User(u) == CurrentUser(u, Role[u])

Tombstone == "[Messaggio eliminato]"

Contents == {"a", "b"}

SendContents == {"a"}

SendTypes == {"text", "admin_announcement"}

\* No reply_to_id.
NoReply == 0

MsgIds == 1..MaxMsgs

\* The reply_to_id values a client sends: none, the id of the message g2
\* holds from the start, or the id of the first message stored later.
ReplyIds == {NoReply, 1, 3}

NewMessage(g, sender, c, t) ==
    [group_id |-> g, sender_id |-> sender, content |-> c, message_type |-> t,
     reply_to_id |-> NoReply,
     is_edited |-> FALSE, is_deleted |-> FALSE,
     is_pinned |-> FALSE, pinned_at |-> None, pinned_by |-> None]

\* Mutant of create_system_message: the row is an ordinary text.
create_system_message_AsText(g, c) == NewMessage(g, None, c, "text")

\* message_service.create_system_message, lines 42-48: the row it adds.
create_system_message(g, c) == NewMessage(g, None, c, "system")

NoRow == [group_id |-> None]

Idle ==
    [op |-> "idle", pc |-> "idle", user |-> None, group |-> None, mid |-> 0,
     content |-> None, mtype |-> None, loaded |-> NoRow, sysid |-> 0,
     joining |-> FALSE, result |-> None, req |-> 0,
     dirty |-> FALSE, emitted |-> FALSE,
     ids |-> << >>, at |-> 0, pending |-> {}, flushed |-> {},
     reply |-> NoReply, error |-> << >>,
     channel |-> None, role |-> None, store |-> << >>, roster |-> {}]

\* Where one action is served on both channels, the record keeps the channel,
\* the role the channel gave the caller, and the rows of `messages` (store)
\* and of the members (roster) as the action leaves them.
\*
\* For mark_messages_read the record keeps the list of message ids (ids), how
\* many of them the loop has looked up (at), the MessageReadStatus objects
\* added to the session and not yet flushed (pending, by message id) and
\* those inserted by a flush and not yet committed (flushed).
\*
\* The record of the request that is accepted next.  Its fields dirty and
\* emitted are history: whether a commit of the request has changed the
\* database, and whether the request has sent an event.
Request(op) == [Idle EXCEPT !.op = op, !.req = nreq + 1]

\* The websockets that may ever be opened, in the order they are opened.
Handles == 1..MaxConns

\* active_connections = {} at import.
NoConnections == [g \in {} |-> [u \in {} |-> None]]

\* No call of _broadcast_to_group_ws made yet by a handler.  A call keeps:
\* the handler that made it (by) and from which code (ctx); the event and
\* excluded user; the
\* dictionary iterator (size0: the size when the loop began, count: entries
\* yielded so far, visited: their keys, stale: the dictionary was dropped
\* from the registry); cur, the (key, websocket) whose send_text is awaited;
\* the list `disconnected`.  failed, sent and audience are history: the
\* websockets whose send raised, how often each websocket took the payload,
\* and the websockets registered in the group when the call began.
NoPub ==
    [state |-> "none", by |-> 0, ev |-> <<None, 0>>, exclude |-> None,
     ctx |-> None,
     size0 |-> 0, count |-> 0, visited |-> {}, stale |-> FALSE,
     cur |-> <<None, 0>>, disconnected |-> {},
     failed |-> {}, sent |-> [x \in Handles |-> 0], audience |-> {}]

\* A websocket nobody has opened yet.  open: the peer still holds the
\* socket; inbox: the new_message envelopes it was sent; pub: the call of
\* _broadcast_to_group_ws its handler is suspended in.
NewConn ==
    [pc |-> "new", user |-> None, group |-> None, open |-> FALSE,
     inbox |-> {}, pub |-> NoPub]

\* No `before` parameter, no next_cursor.
NoCursor == << >>

\* No list_messages call made yet.  A call keeps its parameters (user,
\* group, limit, before: the cursor text of the query string) and its
\* response (page: the ids of `messages`, has_more, next_cursor, enriched:
\* the reply projection of each message of the page).  seen,
\* start and fromStart are history: the ids of all the pages the client got
\* since it last called without the cursor a response gave it, the
\* messages the group held at that call, and whether that call had no
\* cursor at all.
NoListing ==
    [state |-> "idle", user |-> None, group |-> None, limit |-> 0,
     before |-> NoCursor,
     page |-> << >>, has_more |-> FALSE, next_cursor |-> NoCursor,
     enriched |-> << >>,
     seen |-> << >>, start |-> {}, fromStart |-> FALSE]

----------------------------------------------------------------------------
(* Initial state: the service has started (the default group exists with   *)
(* the configured admin as member) and the admin has created the private   *)
(* group g2 inviting bob: g2 holds its creation notice, the default group  *)
(* the announcement of the new group.  carol has never contacted the       *)
(* service.                                                                *)

InitMembers ==
    {<<DefaultGroup, "admin">>, <<"g2", "admin">>, <<"g2", "bob">>}

InitMessages ==
    (1 :> NewMessage("g2", None, "notice", "system"))
    @@ (2 :> NewMessage(DefaultGroup, "admin", "a", "announcement"))

Init ==
    /\ messages = InitMessages
    /\ members = InitMembers
    /\ events = << >>
    /\ proc = [p \in Procs |-> Idle]
    /\ nextId = 3
    /\ nreq = 0
    /\ active_connections = NoConnections
    /\ conn = [h \in Handles |-> NewConn]
    /\ last = NoPub
    /\ listing = NoListing
    /\ receipts = {}

Emit(type, mid) == Append(events, [type |-> type, mid |-> mid])

----------------------------------------------------------------------------
(* send_message *)

\* Mutant of SendCheckResult: the admin check of line 74 is missing.
SendCheckResult_NoAdminCheck(u, g, t) ==
    IF <<g, u>> \notin members THEN "NotAMember" ELSE "ok"

\* message_service.send_message, lines 65-75: the checks before the insert,
\* for the caller `user`.
send_checks(user, g, t) ==
    IF <<g, user.user_id>> \notin members THEN "NotAMember"
    ELSE IF t = "admin_announcement" /\ user.role # "admin"
    THEN "InsufficientPermissions"
    ELSE "ok"

\* The checks of send_message for user u with the role Role[u].
SendCheckResult(u, g, t) == send_checks(User(u), g, t)

\* Session p serves no request: it has not served one yet, or the one it
\* served has ended (its record is kept until the next request arrives).
Free(p) == proc[p].pc \in {"idle", "done"}

\* The record of a request that ends with `res`.
Ended(r, res) == [r EXCEPT !.pc = "done", !.result = res]

\* The texts of the exceptions a flush, a commit or a refresh raises, word by
\* word: the disk of the database is full, or the connection is lost.
NoSpace == <<"No", "space", "left", "on", "device">>
ConnectionLost == <<"connection", "is", "closed">>
Failures == {NoSpace, ConnectionLost}

\* The text of the exception of a unique violation.
UniqueViolation ==
    <<"duplicate", "key", "value", "violates", "unique", "constraint">>

\* str.lower(), on the words of the texts above.
lower(text) == [i \in DOMAIN text |-> IF text[i] = "No" THEN "no" ELSE text[i]]

\* `word in error_str`, for the texts above, in which the words the code
\* looks for appear whole or not at all.
contains(error_str, word) == \E i \in DOMAIN error_str : error_str[i] = word

\* The code that raised has no except clause around it.
NoHandler == "none"

\* What reaches the caller when exception e is raised inside the try of
\* send_message (lines 100-105), of edit_message (lines 138-143) or of
\* ensure_user_in_default_group (group_service.py, lines 98-102), or where
\* there is no try: StorageLimitError, or e itself ("StorageError").
raised(handler, e) ==
    LET error_str == lower(e)
    IN  IF /\ handler \in {"send_message", "edit_message"}
           /\ \/ contains(error_str, "disk")
              \/ contains(error_str, "storage")
              \/ contains(error_str, "space")
        THEN "StorageLimitError"
        ELSE IF /\ handler = "ensure_user_in_default_group"
                /\ \/ contains(error_str, "disk")
                   \/ contains(error_str, "storage")
        THEN "StorageLimitError"
        ELSE "StorageError"

\* Session p's request r ends with exception e raised under `handler`.
FailsWith(p, r, handler, e) ==
    proc' = [proc EXCEPT ![p] = Ended([r EXCEPT !.error = e], raised(handler, e))]

\* Session p's request r ends with a failure of the database.
Fails(p, r, handler) == \E e \in Failures : FailsWith(p, r, handler, e)

\* Mutant of ReplyCheckResult: the reply target may be in any group.
ReplyCheckResult_AnyGroup(g, reply) ==
    IF reply # NoReply /\ reply \notin DOMAIN messages
    THEN "MessageNotFound" ELSE "ok"

\* message_service.send_message, lines 77-82: the reply target is looked up
\* by id and group.
ReplyCheckResult(g, reply) ==
    IF reply # NoReply
       /\ ~(\E m \in DOMAIN messages : m = reply /\ messages[m].group_id = g)
    THEN "MessageNotFound" ELSE "ok"

\* The checks of send_message on request r.
SendChecked(r) ==
    LET res == SendCheckResult(r.user, r.group, r.mtype)
        rep == IF res = "ok" THEN ReplyCheckResult(r.group, r.reply) ELSE res
    IN  IF rep = "ok" THEN [r EXCEPT !.pc = "send_commit"] ELSE Ended(r, rep)

\* The row send_message inserts for request r (lines 85-93).
SentRow(r) ==
    [NewMessage(r.group, r.user, r.content, r.mtype) EXCEPT !.reply_to_id = r.reply]

\* A send_message call arriving on the push channel (websocket_routes.py,
\* action "send_message"): the service function is called directly.
WsSend(p) ==
    /\ Free(p)
    /\ nreq < MaxReqs
    /\ \E u \in Users, g \in Groups, t \in SendTypes, c \in SendContents,
          reply \in ReplyIds :
         proc' = [proc EXCEPT ![p] =
                    SendChecked([Request("send") EXCEPT !.user = u,
                                             !.group = g, !.mtype = t,
                                             !.content = c, !.reply = reply])]
    /\ nreq' = nreq + 1
    /\ UNCHANGED <<messages, members, events, nextId>>

\* Lines 84-105: insert, commit, refresh, broadcast.  The commit may fail
\* (rollback, nothing stored); the refresh after a successful commit may fail
\* (the row stays stored, the exception is raised).
SendCommit(p) ==
    /\ proc[p].pc = "send_commit"
    /\ nextId <= MaxMsgs
    /\ nextId' = nextId + 1
    /\ \/ /\ messages' = messages @@ (nextId :> SentRow(proc[p]))
          /\ events' = Emit("new_message", nextId)
          /\ proc' = [proc EXCEPT ![p] =
                 Ended([@ EXCEPT !.mid = nextId, !.dirty = TRUE, !.emitted = TRUE], "ok")]
       \/ /\ messages' = messages @@ (nextId :> SentRow(proc[p]))
          /\ events' = events
          /\ Fails(p, [proc[p] EXCEPT !.mid = nextId, !.dirty = TRUE], "send_message")
       \/ /\ messages' = messages
          /\ events' = events
          /\ Fails(p, [proc[p] EXCEPT !.mid = nextId], "send_message")
    /\ UNCHANGED <<members, nreq>>

----------------------------------------------------------------------------
(* ensure_user_in_default_group, then send_message: POST .../messages *)

\* Another session holds an uncommitted insert of (default group, u).
JoinPending(p, u) ==
    \E q \in Procs \ {p} : proc[q].joining /\ proc[q].user = u

\* group_service.ensure_user_in_default_group, lines 76-90: the member row
\* and the join notice are flushed and the system_message event is sent,
\* all before the commit.  The flush may fail.
EnsureFlush(p, r) ==
    \/ /\ nextId <= MaxMsgs
       /\ nextId' = nextId + 1
       /\ events' = Emit("system_message", nextId)
       /\ proc' = [proc EXCEPT ![p] =
              [r EXCEPT !.pc = "ensure_commit", !.sysid = nextId,
                        !.joining = TRUE, !.emitted = TRUE]]
    \/ /\ Fails(p, r, "ensure_user_in_default_group")
       /\ UNCHANGED <<events, nextId>>

\* api/messages.py send_message, line 33, and ensure_user_in_default_group,
\* lines 59-74: the request arrives and the membership in the default group
\* is looked up.  An insert of the same (group, user) pair that another
\* session has not yet committed makes this session's insert wait.
RestSend(p) ==
    /\ Free(p)
    /\ nreq < MaxReqs
    /\ nreq' = nreq + 1
    /\ \E u \in Users, g \in Groups, t \in SendTypes, c \in SendContents,
          reply \in ReplyIds :
         LET r == [Request("rest_send") EXCEPT !.user = u, !.group = g,
                               !.mtype = t, !.content = c, !.reply = reply]
         IN  IF <<DefaultGroup, u>> \in members
             THEN /\ proc' = [proc EXCEPT ![p] = [r EXCEPT !.pc = "send_check"]]
                  /\ UNCHANGED <<events, nextId>>
             ELSE IF JoinPending(p, u)
             THEN /\ proc' = [proc EXCEPT ![p] = [r EXCEPT !.pc = "ensure_wait"]]
                  /\ UNCHANGED <<events, nextId>>
             ELSE EnsureFlush(p, r)
    /\ UNCHANGED <<messages, members>>

\* The insert that waited on another session's insert of the same pair: a
\* unique violation if that session committed, the flush goes on if it
\* rolled back.
EnsureResume(p) ==
    /\ proc[p].pc = "ensure_wait"
    /\ ~JoinPending(p, proc[p].user)
    /\ IF <<DefaultGroup, proc[p].user>> \in members
       THEN /\ FailsWith(p, proc[p], "ensure_user_in_default_group", UniqueViolation)
            /\ UNCHANGED <<events, nextId>>
       ELSE EnsureFlush(p, proc[p])
    /\ UNCHANGED <<messages, members, nreq>>

\* ensure_user_in_default_group, lines 91-102: the commit stores the member
\* and the join notice and user_joined is sent, or the commit fails, the
\* transaction is rolled back and the exception raised.
EnsureCommit(p) ==
    /\ proc[p].pc = "ensure_commit"
    /\ \/ /\ members' = members \cup {<<DefaultGroup, proc[p].user>>}
          /\ messages' = messages @@ (proc[p].sysid :>
                create_system_message(DefaultGroup, "notice"))
          /\ events' = Emit("user_joined", 0)
          /\ proc' = [proc EXCEPT ![p] =
                 [@ EXCEPT !.pc = "send_check", !.joining = FALSE, !.dirty = TRUE]]
       \/ /\ Fails(p, [proc[p] EXCEPT !.joining = FALSE], "ensure_user_in_default_group")
          /\ UNCHANGED <<members, messages, events>>
    /\ UNCHANGED <<nextId, nreq>>

\* api/messages.py, line 34: send_message is called and makes its checks.
SendCheck(p) ==
    /\ proc[p].pc = "send_check"
    /\ proc' = [proc EXCEPT ![p] = SendChecked(@)]
    /\ UNCHANGED <<messages, members, events, nextId, nreq>>

----------------------------------------------------------------------------
(* edit_message *)

\* Mutant of EditCheckResult: the is_deleted check of line 119 is missing.
EditCheckResult_DeletedEditable(m, u) ==
    IF m \notin DOMAIN messages THEN "MessageNotFound"
    ELSE IF messages[m].message_type = "system" THEN "InsufficientPermissions"
    ELSE IF messages[m].sender_id # u /\ ~is_admin(u) THEN "InsufficientPermissions"
    ELSE "ok"

\* Mutant of EditCheckResult: the check of line 122 lets admins through.
EditCheckResult_SystemEditable(m, u) ==
    IF m \notin DOMAIN messages THEN "MessageNotFound"
    ELSE IF messages[m].is_deleted THEN "MessageNotFound"
    ELSE IF messages[m].sender_id # u /\ ~is_admin(u) THEN "InsufficientPermissions"
    ELSE "ok"

\* message_service.edit_message, lines 114-126, for the caller `user`.
edit_checks(m, user) ==
    IF m \notin DOMAIN messages THEN "MessageNotFound"
    ELSE IF messages[m].is_deleted THEN "MessageNotFound"
    ELSE IF messages[m].message_type = "system" THEN "InsufficientPermissions"
    ELSE IF messages[m].sender_id # user.user_id /\ user.role # "admin"
    THEN "InsufficientPermissions"
    ELSE "ok"

\* The checks of edit_message for user u with the role Role[u].
EditCheckResult(m, u) == edit_checks(m, User(u))

\* The row is selected into the session and checked.
EditLoad(p) ==
    /\ Free(p)
    /\ nreq < MaxReqs
    /\ nreq' = nreq + 1
    /\ \E u \in Users, m \in MsgIds, c \in Contents :
         LET r   == [Request("edit") EXCEPT !.user = u, !.mid = m, !.content = c]
             res == EditCheckResult(m, u)
         IN  proc' = [proc EXCEPT ![p] =
                IF res = "ok"
                THEN [r EXCEPT !.pc = "edit_commit", !.loaded = messages[m]]
                ELSE Ended(r, res)]
    /\ UNCHANGED <<messages, members, events, nextId>>

\* Mutant of EditWrite: the UPDATE writes every column of the loaded object.
EditWrite_WholeRow(row, loaded, c) ==
    [loaded EXCEPT !.content = c, !.is_edited = TRUE]

\* The UPDATE the session's commit issues for an edit: it sets the columns
\* whose value the session changed from the loaded one, and no other.
EditWrite(row, loaded, c) ==
    [row EXCEPT !.content = IF c # loaded.content THEN c ELSE @,
                !.is_edited = IF ~loaded.is_edited THEN TRUE ELSE @]

\* Lines 128-143.
EditCommit(p) ==
    /\ proc[p].pc = "edit_commit"
    /\ LET m == proc[p].mid
           w == [messages EXCEPT ![m] = EditWrite(@, proc[p].loaded, proc[p].content)]
       IN  \/ /\ messages' = w
              /\ events' = Emit("message_edited", m)
              /\ proc' = [proc EXCEPT ![p] =
                     Ended([@ EXCEPT !.dirty = TRUE, !.emitted = TRUE], "ok")]
           \/ /\ messages' = w
              /\ events' = events
              /\ Fails(p, [proc[p] EXCEPT !.dirty = TRUE], "edit_message")
           \/ /\ messages' = messages
              /\ events' = events
              /\ Fails(p, proc[p], "edit_message")
    /\ UNCHANGED <<members, nextId, nreq>>

----------------------------------------------------------------------------
(* delete_message *)

\* Mutant of DeleteCheckResult: the check of line 156 is missing.
DeleteCheckResult_AnyCaller(m, u) ==
    IF m \notin DOMAIN messages THEN "MessageNotFound" ELSE "ok"

\* message_service.delete_message, lines 151-157, for the caller `user`.
delete_checks(m, user) ==
    IF m \notin DOMAIN messages THEN "MessageNotFound"
    ELSE IF messages[m].sender_id # user.user_id /\ user.role # "admin"
    THEN "InsufficientPermissions"
    ELSE "ok"

\* The checks of delete_message for user u with the role Role[u].
DeleteCheckResult(m, u) == delete_checks(m, User(u))

DeleteLoad(p) ==
    /\ Free(p)
    /\ nreq < MaxReqs
    /\ nreq' = nreq + 1
    /\ \E u \in Users, m \in MsgIds :
         LET r   == [Request("delete") EXCEPT !.user = u, !.mid = m]
             res == DeleteCheckResult(m, u)
         IN  proc' = [proc EXCEPT ![p] =
                IF res = "ok"
                THEN [r EXCEPT !.pc = "delete_commit", !.loaded = messages[m]]
                ELSE Ended(r, res)]
    /\ UNCHANGED <<messages, members, events, nextId>>

\* The UPDATE of the soft delete, lines 159-162.
DeleteWrite(row, loaded) ==
    [row EXCEPT !.is_deleted = IF ~loaded.is_deleted THEN TRUE ELSE @,
                !.content = IF loaded.content # Tombstone THEN Tombstone ELSE @]

\* Mutant of ModerationEvents: the notice is announced before the deletion.
ModerationEvents_NoticeFirst(m, sid) ==
    <<[type |-> "system_message", mid |-> sid], [type |-> "message_deleted", mid |-> m]>>

\* Lines 165-175: the events of a moderation, in the order they are sent.
ModerationEvents(m, sid) ==
    <<[type |-> "message_deleted", mid |-> m], [type |-> "system_message", mid |-> sid]>>

\* Mutant of moderates: an admin's delete of their own message counts too.
moderates_OwnToo(user, row) ==
    user.role = "admin" /\ row.sender_id # None

\* Line 170: the delete is a moderation by an admin of someone else's message.
moderates(user, row) ==
    user.role = "admin" /\ row.sender_id # None /\ row.sender_id # user.user_id

\* The delete by user u with the role Role[u] is a moderation.
IsModeration(u, row) == moderates(User(u), row)

\* Lines 159-175: commit of the soft delete, refresh, message_deleted; then,
\* for a moderation, create_system_message (lines 41-53): the notice is
\* flushed and system_message is sent.  Neither commit nor flush is guarded.
DeleteCommit(p) ==
    /\ proc[p].pc = "delete_commit"
    /\ LET m == proc[p].mid
           w == [messages EXCEPT ![m] = DeleteWrite(@, proc[p].loaded)]
       IN  \/ /\ messages' = messages
              /\ events' = events
              /\ nextId' = nextId
              /\ Fails(p, proc[p], NoHandler)
           \/ /\ messages' = w
              /\ events' = events
              /\ nextId' = nextId
              /\ Fails(p, [proc[p] EXCEPT !.dirty = TRUE], NoHandler)
           \/ /\ ~IsModeration(proc[p].user, w[m])
              /\ messages' = w
              /\ events' = Emit("message_deleted", m)
              /\ nextId' = nextId
              /\ proc' = [proc EXCEPT ![p] =
                     Ended([@ EXCEPT !.dirty = TRUE, !.emitted = TRUE], "ok")]
           \/ /\ IsModeration(proc[p].user, w[m])
              /\ messages' = w
              /\ events' = Emit("message_deleted", m)
              /\ nextId' = nextId
              /\ Fails(p, [proc[p] EXCEPT !.dirty = TRUE, !.emitted = TRUE], NoHandler)
           \/ /\ IsModeration(proc[p].user, w[m])
              /\ nextId <= MaxMsgs
              /\ messages' = w
              /\ events' = events \o ModerationEvents(m, nextId)
              /\ nextId' = nextId + 1
              /\ proc' = [proc EXCEPT ![p] =
                     [@ EXCEPT !.pc = "delete_sys_commit", !.sysid = nextId,
                               !.dirty = TRUE, !.emitted = TRUE]]
    /\ UNCHANGED <<members, nreq>>

\* Line 176: the commit of the moderation notice.
DeleteSysCommit(p) ==
    /\ proc[p].pc = "delete_sys_commit"
    /\ \/ /\ messages' = messages @@ (proc[p].sysid :>
                create_system_message(messages[proc[p].mid].group_id, "notice"))
          /\ proc' = [proc EXCEPT ![p] = Ended(@, "ok")]
       \/ /\ messages' = messages
          /\ Fails(p, proc[p], NoHandler)
    /\ UNCHANGED <<members, events, nextId, nreq>>

----------------------------------------------------------------------------
(* toggle_pin_message *)

\* message_service.toggle_pin_message, lines 267-283.
PinCheckResult(m, g, u) ==
    IF <<g, u>> \notin members THEN "NotAMember"
    ELSE IF m \notin DOMAIN messages \/ messages[m].group_id # g THEN "MessageNotFound"
    ELSE IF messages[m].is_deleted THEN "MessageNotFound"
    ELSE "ok"

PinLoad(p) ==
    /\ Free(p)
    /\ nreq < MaxReqs
    /\ nreq' = nreq + 1
    /\ \E u \in Users, g \in Groups, m \in MsgIds :
         LET r   == [Request("pin") EXCEPT !.user = u, !.group = g, !.mid = m]
             res == PinCheckResult(m, g, u)
         IN  proc' = [proc EXCEPT ![p] =
                IF res = "ok"
                THEN [r EXCEPT !.pc = "pin_commit", !.loaded = messages[m]]
                ELSE Ended(r, res)]
    /\ UNCHANGED <<messages, members, events, nextId>>

\* The UPDATE of the pin toggle, lines 285-289.
PinWrite(row, loaded, u) ==
    LET new_pinned == ~loaded.is_pinned
        by == IF new_pinned THEN u ELSE None
        at == IF new_pinned THEN "now" ELSE None
    IN  [row EXCEPT !.is_pinned = new_pinned,
                    !.pinned_at = IF at # loaded.pinned_at \/ new_pinned THEN at ELSE @,
                    !.pinned_by = IF by # loaded.pinned_by THEN by ELSE @]

\* Lines 285-303.
PinCommit(p) ==
    /\ proc[p].pc = "pin_commit"
    /\ LET m == proc[p].mid
           w == [messages EXCEPT ![m] = PinWrite(@, proc[p].loaded, proc[p].user)]
       IN  \/ /\ messages' = w
              /\ events' = Emit("message_pinned", m)
              /\ proc' = [proc EXCEPT ![p] =
                     Ended([@ EXCEPT !.dirty = TRUE, !.emitted = TRUE], "ok")]
           \/ /\ messages' = w
              /\ events' = events
              /\ Fails(p, [proc[p] EXCEPT !.dirty = TRUE], NoHandler)
           \/ /\ messages' = messages
              /\ events' = events
              /\ Fails(p, proc[p], NoHandler)
    /\ UNCHANGED <<members, nextId, nreq>>

----------------------------------------------------------------------------
(* mark_messages_read: POST .../messages/read *)

\* The lists of message ids a client sends.
MarkLists ==
    UNION {[1..n -> MsgIds \ {MaxMsgs}] : n \in 1..MaxMarks}

\* Line 220-226: what the SELECT of session p finds for (m, u): a committed
\* row or a row the session itself has inserted.
existing(p, r, m) == <<m, r.user>> \in receipts \/ m \in r.flushed

\* Another session holds an uncommitted insert of the row (m, u).
InsertHeld(p, m, u) ==
    \E q \in Procs \ {p} :
        proc[q].op = "mark" /\ proc[q].user = u /\ m \in proc[q].flushed

\* Session p's next statement is an INSERT that waits for another session.
Blocked(p) ==
    /\ proc[p].pc \in {"mark_loop", "mark_commit"}
    /\ \E m \in proc[p].pending : InsertHeld(p, m, proc[p].user)

\* The INSERT of the pending rows of request r in session p (the autoflush
\* before a SELECT, or the flush of a commit): a foreign key violation if
\* the message is not stored, a unique violation (UniqueConstraint,
\* message_read_status.py line 13) if the row is committed, a wait while
\* another session holds an insert of the row, ended as a deadlock if that
\* session waits for this one.
flush(p, r) ==
    IF r.pending = {} THEN "ok"
    ELSE IF \E m \in r.pending : m \notin DOMAIN messages THEN "IntegrityError"
    ELSE IF \E m \in r.pending : <<m, r.user>> \in receipts THEN "IntegrityError"
    ELSE IF \E m \in r.pending : InsertHeld(p, m, r.user)
    THEN IF \E q \in Procs \ {p} : Blocked(q) THEN "DeadlockDetected" ELSE "wait"
    ELSE "ok"

\* The session is closed on an exception (db/session.py, line 44): what it
\* inserted is rolled back.
RolledBack(r, res) == Ended([r EXCEPT !.pending = {}, !.flushed = {}], res)

\* Mutant of lookup: the row is added without looking for an existing one.
lookup_NoSelect(p, r) ==
    LET m == r.ids[r.at + 1]
        f == [r EXCEPT !.flushed = @ \cup r.pending, !.pending = {}]
    IN  [f EXCEPT !.at = @ + 1, !.pending = {m}]

\* Lines 219-232, one turn of the loop after its flush: the SELECT and the
\* db.add of a new MessageReadStatus.
lookup(p, r) ==
    LET m == r.ids[r.at + 1]
        f == [r EXCEPT !.flushed = @ \cup r.pending, !.pending = {}]
    IN  [f EXCEPT !.at = @ + 1,
                  !.pending = IF existing(p, f, m) THEN {} ELSE {m}]

\* Lines 219-239: where the call stands after a turn of the loop.  With no
\* new status the call returns the empty list without a commit.
Looked(r) ==
    IF r.at < Len(r.ids) THEN [r EXCEPT !.pc = "mark_loop"]
    ELSE IF r.pending \cup r.flushed = {} THEN Ended(r, "ok")
    ELSE [r EXCEPT !.pc = "mark_commit"]

\* api/messages.mark_read, lines 92-100: the request arrives and the loop
\* looks up the first id.
MarkRead(p) ==
    /\ Free(p)
    /\ nreq < MaxReqs
    /\ nreq' = nreq + 1
    /\ \E u \in Users, ids \in MarkLists :
         proc' = [proc EXCEPT ![p] =
                    Looked(lookup(p, [Request("mark") EXCEPT !.user = u, !.ids = ids]))]
    /\ UNCHANGED <<messages, members, events, nextId, receipts>>

\* A later turn of the loop: the pending row is flushed before the SELECT.
MarkNext(p) ==
    /\ proc[p].pc = "mark_loop"
    /\ LET res == flush(p, proc[p])
       IN  /\ res # "wait"
           /\ proc' = [proc EXCEPT ![p] =
                  IF res = "ok" THEN Looked(lookup(p, @)) ELSE RolledBack(@, res)]
    /\ UNCHANGED <<messages, members, events, nextId, nreq, receipts>>

\* Lines 234-239: the commit flushes the pending row and stores the new
\* receipts; then each is refreshed.  The commit or a refresh may fail.
MarkCommit(p) ==
    /\ proc[p].pc = "mark_commit"
    /\ LET res == flush(p, proc[p])
           r   == [proc[p] EXCEPT !.flushed = @ \cup proc[p].pending, !.pending = {}]
           new == {<<m, r.user>> : m \in r.flushed}
       IN  /\ res # "wait"
           /\ IF res # "ok"
              THEN /\ proc' = [proc EXCEPT ![p] = RolledBack(@, res)]
                   /\ receipts' = receipts
              ELSE \/ /\ receipts' = receipts \cup new
                      /\ proc' = [proc EXCEPT ![p] = Ended([r EXCEPT !.dirty = TRUE], "ok")]
                   \/ /\ receipts' = receipts \cup new
                      /\ Fails(p, [r EXCEPT !.dirty = TRUE], NoHandler)
                   \/ /\ receipts' = receipts
                      /\ Fails(p, [proc[p] EXCEPT !.pending = {}, !.flushed = {}], NoHandler)
    /\ UNCHANGED <<messages, members, events, nextId, nreq>>

\* Mutant of get_unread_count: the is_deleted filter of line 253 is missing.
get_unread_count_CountDeleted(g, u) ==
    LET subquery == {pair[1] : pair \in {x \in receipts : x[2] = u}}
    IN  Cardinality({m \in DOMAIN messages :
            /\ messages[m].group_id = g
            /\ m \notin subquery})

\* message_service.get_unread_count, lines 242-257.
get_unread_count(g, u) ==
    LET subquery == {pair[1] : pair \in {x \in receipts : x[2] = u}}
    IN  Cardinality({m \in DOMAIN messages :
            /\ messages[m].group_id = g
            /\ messages[m].is_deleted = FALSE
            /\ m \notin subquery})

----------------------------------------------------------------------------

\* The lifecycle requests leave the live connections and the history reader
\* alone.
Next ==
    \E p \in Procs :
        \/ WsSend(p) /\ UNCHANGED <<wsvars, listing, receipts>>
        \/ RestSend(p) /\ UNCHANGED <<wsvars, listing, receipts>>
        \/ EnsureResume(p) /\ UNCHANGED <<wsvars, listing, receipts>>
        \/ EnsureCommit(p) /\ UNCHANGED <<wsvars, listing, receipts>>
        \/ SendCheck(p) /\ UNCHANGED <<wsvars, listing, receipts>>
        \/ SendCommit(p) /\ UNCHANGED <<wsvars, listing, receipts>>
        \/ EditLoad(p) /\ UNCHANGED <<wsvars, listing, receipts>>
        \/ EditCommit(p) /\ UNCHANGED <<wsvars, listing, receipts>>
        \/ DeleteLoad(p) /\ UNCHANGED <<wsvars, listing, receipts>>
        \/ DeleteCommit(p) /\ UNCHANGED <<wsvars, listing, receipts>>
        \/ DeleteSysCommit(p) /\ UNCHANGED <<wsvars, listing, receipts>>
        \/ PinLoad(p) /\ UNCHANGED <<wsvars, listing, receipts>>
        \/ PinCommit(p) /\ UNCHANGED <<wsvars, listing, receipts>>
        \/ MarkRead(p) /\ UNCHANGED <<wsvars, listing>>
        \/ MarkNext(p) /\ UNCHANGED <<wsvars, listing>>
        \/ MarkCommit(p) /\ UNCHANGED <<wsvars, listing>>

Spec == Init /\ [][Next]_vars

----------------------------------------------------------------------------
(* Live connections (app/api/websocket_routes.py).                         *)
(*                                                                         *)
(* One handler coroutine serves each websocket.  The handlers share the    *)
(* dictionary active_connections and run on one event loop: a handler runs *)
(* without interruption from one await to the next, so each action below   *)
(* is the code between two awaits.  _broadcast_to_group_ws iterates over   *)
(* the live dictionary of the group and awaits send_text inside the loop;  *)
(* a dictionary iterator raises RuntimeError when it is advanced after the *)
(* dictionary changed size.  The operators take the registry R and the     *)
(* connection records C and give the set of (R, C) that the code can       *)
(* leave behind at its next await.                                         *)

\* The websockets the registry holds for group g.
InGroup(R, g) == IF g \in DOMAIN R THEN {R[g][u] : u \in DOMAIN R[g]} ELSE {}

\* Websocket h is a value of the registry.
Registered(R, h) == \E g \in DOMAIN R : h \in InGroup(R, g)

\* Mutant of register: an entry already present is kept (dict.setdefault).
register_KeepFirst(R, g, u, h) ==
    LET old == IF g \in DOMAIN R THEN R[g] ELSE [y \in {} |-> None]
        new == [y \in DOMAIN old \cup {u} |-> IF y \in DOMAIN old THEN old[y] ELSE h]
    IN  [x \in DOMAIN R \cup {g} |-> IF x = g THEN new ELSE R[x]]

\* websocket_chat, lines 94-96.
register(R, g, u, h) ==
    LET old == IF g \in DOMAIN R THEN R[g] ELSE [y \in {} |-> None]
        new == [y \in DOMAIN old \cup {u} |-> IF y = u THEN h ELSE old[y]]
    IN  [x \in DOMAIN R \cup {g} |-> IF x = g THEN new ELSE R[x]]

\* dict.pop(k, None) for every k of a set K.
pop(m, K) == [y \in DOMAIN m \ K |-> m[y]]

\* websocket_chat, lines 214-217.
unregister(R, g, u) ==
    IF g \notin DOMAIN R THEN R
    ELSE LET m == pop(R[g], {u})
         IN  IF DOMAIN m = {} THEN [x \in DOMAIN R \ {g} |-> R[x]]
             ELSE [R EXCEPT ![g] = m]

\* _broadcast_to_group_ws, lines 47-48.
prune(R, g, disconnected) == [R EXCEPT ![g] = pop(@, disconnected)]

\* Keys K left the dictionary of group g: for an iterator suspended over it
\* a key of K inserted again is a new entry, not one it has yielded.
Forget(C, g, K) ==
    [h \in Handles |->
        IF C[h].pub.state = "sending" /\ C[h].group = g
        THEN [C[h] EXCEPT !.pub.visited = @ \ K] ELSE C[h]]

\* The dictionary of group g was deleted from the registry: the iterators
\* suspended over it hold the old, now empty, dictionary.
Dropped(C, g) ==
    [h \in Handles |->
        IF C[h].pub.state = "sending" /\ C[h].group = g
        THEN [C[h] EXCEPT !.pub.stale = TRUE] ELSE C[h]]

\* _broadcast_to_group_ws, lines 29-30 and 39-41: the keys the loop sends to.
Targets(R, g, ex) == IF g \in DOMAIN R THEN DOMAIN R[g] \ {ex} ELSE {}

\* _broadcast_to_group_ws, lines 28-43: the call begins and suspends in the
\* send_text to its first target.  L is the call this step has completed.
Calling(R, C, L, h, ev, ex, ctx) ==
    LET g == C[h].group
        skipped == DOMAIN R[g] \cap {ex}
    IN  { <<R, [C EXCEPT ![h].pc = "publishing",
                         ![h].pub = [NoPub EXCEPT
                             !.state = "sending", !.by = h, !.ev = ev,
                             !.exclude = ex, !.ctx = ctx,
                             !.size0 = Cardinality(DOMAIN R[g]),
                             !.visited = skipped \cup {k},
                             !.count = Cardinality(skipped) + 1,
                             !.cur = <<k, R[g][k]>>,
                             !.audience = InGroup(R, g)]], L>> :
          k \in Targets(R, g, ex) }

\* websocket_chat, lines 213-222: the handler's finally block, up to the
\* first send of its user_offline call.
Finally(R, C, L, h) ==
    LET g == C[h].group
        R1 == unregister(R, g, C[h].user)
        C0 == IF g \in DOMAIN R /\ g \notin DOMAIN R1
              THEN Dropped(C, g) ELSE Forget(C, g, {C[h].user})
    IN  IF Targets(R1, g, None) = {}
        THEN { <<R1, [C0 EXCEPT ![h].pc = "ended", ![h].open = FALSE], L>> }
        ELSE Calling(R1, C0, L, h, <<"user_offline", 0>>, None, "offline")

\* The call p as history keeps it once it has ended with `outcome`.
Completed(p, outcome) ==
    [NoPub EXCEPT !.state = outcome, !.by = p.by, !.ev = p.ev,
                  !.exclude = p.exclude, !.ctx = p.ctx, !.failed = p.failed,
                  !.sent = p.sent, !.audience = p.audience]

\* What the handler does when its call of _broadcast_to_group_ws returns or
\* raises, up to its next await: line 104 after the user_online call (the
\* call is outside the try: an exception ends the handler without the
\* finally block and the server closes the socket), lines 211-213 after
\* the typing call, lines 150-155 after the new_message call and likewise
\* after the message_edited and message_deleted calls (the error
\* envelope goes to the handler's own socket; if that send raises, the
\* handler ends through lines 211-213), the end of the handler after the
\* user_offline call.
Continue(R, C, h, outcome) ==
    LET p == Completed(C[h].pub, outcome)
        C1 == [C EXCEPT ![h].pub = NoPub]
        recv == [C1 EXCEPT ![h].pc = "recv"]
    IN  CASE p.ctx = "online" ->
               IF outcome = "returned" THEN { <<R, recv, p>> }
               ELSE { <<R, [C1 EXCEPT ![h].pc = "crashed", ![h].open = FALSE], p>> }
          [] p.ctx = "typing" ->
               IF outcome = "returned" THEN { <<R, recv, p>> }
               ELSE Finally(R, C1, p, h)
          [] p.ctx \in {"send", "edit", "delete"} ->
               IF outcome = "returned" \/ C1[h].open THEN { <<R, recv, p>> }
               ELSE Finally(R, C1, p, h)
          [] OTHER ->
               { <<R, [C1 EXCEPT ![h].pc = "ended", ![h].open = FALSE], p>> }

\* _broadcast_to_group_ws called by handler h, up to its first await.
StartPublish(R, C, h, ev, ex, ctx) ==
    IF Targets(R, C[h].group, ex) = {}
    THEN Continue(R, [C EXCEPT ![h].pub = [NoPub EXCEPT
                         !.by = h, !.ev = ev, !.exclude = ex, !.ctx = ctx,
                         !.audience = InGroup(R, C[h].group)]],
                  h, "returned")
    ELSE Calling(R, C, NoPub, h, ev, ex, ctx)

\* websocket_chat, lines 64-102: a websocket is opened for user u on group
\* g.  (A user outside the default group who opens it is joined first, by
\* ensure_user_in_default_group: that path is taken by RestSend above and
\* is not drawn here.)
Connect(h, u, g) ==
    /\ conn[h].pc = "new"
    /\ \A x \in Handles : x < h => conn[x].pc # "new"
    /\ <<g, u>> \in members \/ g # DefaultGroup
    /\ LET C0 == [conn EXCEPT ![h].user = u, ![h].group = g]
       IN  IF <<g, u>> \notin members
           THEN /\ conn' = [C0 EXCEPT ![h].pc = "ended"]
                /\ active_connections' = active_connections
                /\ last' = NoPub
           ELSE \E o \in StartPublish(register(active_connections, g, u, h),
                                      [C0 EXCEPT ![h].open = TRUE], h,
                                      <<"user_online", 0>>, u, "online") :
                    /\ active_connections' = o[1]
                    /\ conn' = o[2]
                    /\ last' = o[3]
    /\ UNCHANGED <<corevars, listing, receipts>>

\* The peer of websocket h closes it, or its network fails.
Close(h) ==
    /\ conn[h].open
    /\ conn[h].pc \in {"recv", "publishing"}
    /\ conn' = [conn EXCEPT ![h].open = FALSE]
    /\ last' = NoPub
    /\ UNCHANGED <<corevars, active_connections, listing, receipts>>

\* websocket_chat, lines 106 and 209-222: receive_text raises on the closed
\* socket.
HandlerDisconnect(h) ==
    /\ conn[h].pc = "recv"
    /\ ~conn[h].open
    /\ \E o \in Finally(active_connections, conn, NoPub, h) :
           /\ active_connections' = o[1]
           /\ conn' = o[2]
           /\ last' = o[3]
    /\ UNCHANGED <<corevars, listing, receipts>>

\* websocket_chat, lines 157-162: action "typing".
HandlerTyping(h) ==
    /\ conn[h].pc = "recv"
    /\ conn[h].open
    /\ \E o \in StartPublish(active_connections, conn, h, <<"typing", 0>>,
                             conn[h].user, "typing") :
           /\ active_connections' = o[1]
           /\ conn' = o[2]
           /\ last' = o[3]
    /\ UNCHANGED <<corevars, listing, receipts>>

\* websocket_chat, lines 119-155: action "send_message" with a text, the
\* call of message_service.send_message taken as one step (it does not
\* touch the registry), then the new_message call.  In the second branch
\* the commit fails and the error envelope is sent.
HandlerSend(h) ==
    /\ conn[h].pc = "recv"
    /\ conn[h].open
    /\ nextId <= Cardinality(DOMAIN InitMessages) + MaxSends
    /\ nextId' = nextId + 1
    /\ LET u == conn[h].user
           g == conn[h].group
       IN  \/ /\ SendCheckResult(u, g, "text") = "ok"
              /\ messages' = messages @@ (nextId :> NewMessage(g, u, "a", "text"))
              /\ events' = Emit("new_message", nextId)
              /\ \E o \in StartPublish(active_connections, conn, h,
                                       <<"new_message", nextId>>, None, "send") :
                     /\ active_connections' = o[1]
                     /\ conn' = o[2]
                     /\ last' = o[3]
           \/ /\ last' = NoPub
              /\ UNCHANGED <<messages, events, active_connections, conn>>
    /\ UNCHANGED <<members, proc, nreq, listing, receipts>>

\* api/messages.send_message, lines 26-43, for a caller who is a member of
\* the default group and of g, taken as one step: the row is committed and
\* the event goes to realtime_service alone.
RestPost(u, g) ==
    /\ nextId <= Cardinality(DOMAIN InitMessages) + MaxSends
    /\ <<DefaultGroup, u>> \in members
    /\ SendCheckResult(u, g, "text") = "ok"
    /\ nextId' = nextId + 1
    /\ messages' = messages @@ (nextId :> NewMessage(g, u, "a", "text"))
    /\ events' = Emit("new_message", nextId)
    /\ last' = NoPub
    /\ UNCHANGED <<members, proc, nreq, active_connections, conn, listing, receipts>>

\* The text frames that make the handler fail before or while it calls the
\* service: text that is no JSON ("{"), an action whose message_id or
\* reply_to_id is no UUID, JSON that is no object ("[]"), and a
\* send_message whose content is no string ({"content": 5}).
BadFrames == {"bad_json", "bad_id", "not_object", "bad_content"}

\* websocket_chat, lines 107-117, 120 and 132: where the frame raises.
\* json.JSONDecodeError is caught at line 109 and the ValueError of
\* uuid.UUID by the except of the action (lines 150, 180, 200): an error
\* envelope is sent.  The AttributeError of data.get (line 117) and of
\* .strip() (lines 120 and 166) is raised outside those and caught at line
\* 211 only.
frame_outcome(frame) ==
    IF frame \in {"bad_json", "bad_id"} THEN "error_sent" ELSE "handler_ended"

\* The record of the step in which handler h took frame f.
FrameStep(h, f) ==
    [NoPub EXCEPT !.state = frame_outcome(f), !.by = h, !.ctx = "frame"]

\* websocket_chat, lines 104-117 and 209-222: the handler receives a frame
\* of BadFrames.  It sends the error envelope to its own socket and waits
\* for the next frame, or leaves the loop through the finally block.
HandlerFrame(h, f) ==
    /\ conn[h].pc = "recv"
    /\ conn[h].open
    /\ IF frame_outcome(f) = "error_sent"
       THEN /\ last' = FrameStep(h, f)
            /\ UNCHANGED <<active_connections, conn>>
       ELSE \E o \in Finally(active_connections, conn, FrameStep(h, f), h) :
                /\ active_connections' = o[1]
                /\ conn' = o[2]
                /\ last' = o[3]
    /\ UNCHANGED <<corevars, listing, receipts>>

\* The envelope as far as the inbox of a websocket keeps it.
Lifecycle(ev) ==
    IF ev[1] \in {"new_message", "message_edited", "message_deleted"}
    THEN {ev} ELSE {}

\* _broadcast_to_group_ws, lines 39-48: the awaited send_text completes or
\* raises, the loop advances (the iterator raises if the dictionary changed
\* size, or holds more entries than it had), and either suspends in the next
\* send or ends, prunes and returns.
PubResume(h) ==
    /\ conn[h].pc = "publishing"
    /\ LET R == active_connections
           g == conn[h].group
           p == conn[h].pub
           t == p.cur[2]
           C1 == IF conn[t].open
                 THEN [conn EXCEPT ![t].inbox = @ \cup Lifecycle(p.ev),
                                   ![h].pub.sent[t] = @ + 1]
                 ELSE [conn EXCEPT ![h].pub.disconnected = @ \cup {p.cur[1]},
                                   ![h].pub.failed = @ \cup {t}]
           p1 == C1[h].pub
           D == IF g \in DOMAIN R THEN DOMAIN R[g] ELSE {}
           skip == (D \ p1.visited) \cap {p1.exclude}
           cands == (D \ p1.visited) \ {p1.exclude}
           n1 == p1.count + Cardinality(skip)
       IN  \E o \in
              IF p1.stale \/ g \notin DOMAIN R \/ Cardinality(D) # p1.size0
              THEN Continue(R, C1, h, "raised")
              ELSE IF skip # {} /\ p1.count >= p1.size0
              THEN Continue(R, C1, h, "raised")
              ELSE IF cands = {}
              THEN Continue(prune(R, g, p1.disconnected),
                            Forget(C1, g, p1.disconnected), h, "returned")
              ELSE IF n1 >= p1.size0
              THEN Continue(R, C1, h, "raised")
              ELSE { <<R, [C1 EXCEPT ![h].pub =
                              [p1 EXCEPT !.visited = @ \cup skip \cup {k},
                                         !.count = n1 + 1,
                                         !.cur = <<k, R[g][k]>>]], NoPub>> :
                     k \in cands } :
              /\ active_connections' = o[1]
              /\ conn' = o[2]
              /\ last' = o[3]
    /\ UNCHANGED <<corevars, listing, receipts>>

WsNext ==
    \/ \E h \in Handles, u \in Users, g \in Groups : Connect(h, u, g)
    \/ \E h \in Handles : Close(h)
    \/ \E h \in Handles : HandlerDisconnect(h)
    \/ \E h \in Handles : HandlerTyping(h)
    \/ \E h \in Handles : HandlerSend(h)
    \/ \E h \in Handles, f \in BadFrames : HandlerFrame(h, f)
    \/ \E h \in Handles : PubResume(h)
    \/ \E u \in Users, g \in Groups : RestPost(u, g)

WsSpec == Init /\ [][WsNext]_vars

\* The edits and deletes the handlers have committed.
Changes ==
    Cardinality({i \in DOMAIN events :
                    events[i].type \in {"message_edited", "message_deleted"}})

\* websocket_chat, lines 164-186: action "edit_message" for message m with
\* content c, the call of message_service.edit_message taken as one step,
\* then the message_edited call for the group of the websocket.  When the
\* checks fail the error envelope is sent.
HandlerEdit(h, m, c) ==
    /\ conn[h].pc = "recv"
    /\ conn[h].open
    /\ Changes < MaxSends
    /\ IF EditCheckResult(m, conn[h].user) = "ok"
       THEN /\ messages' = [messages EXCEPT ![m] = EditWrite(@, @, c)]
            /\ events' = Emit("message_edited", m)
            /\ \E o \in StartPublish(active_connections, conn, h,
                                     <<"message_edited", m>>, None, "edit") :
                   /\ active_connections' = o[1]
                   /\ conn' = o[2]
                   /\ last' = o[3]
       ELSE /\ last' = NoPub
            /\ UNCHANGED <<messages, events, active_connections, conn>>
    /\ UNCHANGED <<members, proc, nextId, nreq, listing, receipts>>

\* websocket_chat, lines 188-207: action "delete_message" for message m,
\* the call of message_service.delete_message taken as one step (with the
\* notice of a moderation), then the message_deleted call for the group of
\* the websocket.
HandlerDelete(h, m) ==
    /\ conn[h].pc = "recv"
    /\ conn[h].open
    /\ Changes < MaxSends
    /\ IF DeleteCheckResult(m, conn[h].user) = "ok"
       THEN LET w == [messages EXCEPT ![m] = DeleteWrite(@, @)]
                mod == IsModeration(conn[h].user, w[m])
            IN  /\ mod => nextId <= MaxMsgs
                /\ messages' = IF mod
                               THEN w @@ (nextId :>
                                      create_system_message(w[m].group_id, "notice"))
                               ELSE w
                /\ nextId' = IF mod THEN nextId + 1 ELSE nextId
                /\ events' = IF mod THEN events \o ModerationEvents(m, nextId)
                             ELSE Emit("message_deleted", m)
                /\ \E o \in StartPublish(active_connections, conn, h,
                                         <<"message_deleted", m>>, None, "delete") :
                       /\ active_connections' = o[1]
                       /\ conn' = o[2]
                       /\ last' = o[3]
       ELSE /\ last' = NoPub
            /\ UNCHANGED <<messages, events, nextId, active_connections, conn>>
    /\ UNCHANGED <<members, proc, nreq, listing, receipts>>

\* The handlers serve the actions edit_message and delete_message.
PushNext ==
    \/ \E h \in Handles, u \in Users, g \in Groups : Connect(h, u, g)
    \/ \E h \in Handles, m \in MsgIds, c \in Contents : HandlerEdit(h, m, c)
    \/ \E h \in Handles, m \in MsgIds : HandlerDelete(h, m)
    \/ \E h \in Handles : PubResume(h)

PushSpec == Init /\ [][PushNext]_vars

----------------------------------------------------------------------------
(* GET /groups/{group_id}/messages/{message_id} (app/api/messages.py)      *)

\* api/messages.get_message, lines 120-125, with message_service.get_message
\* (lines 205-210): the membership check is skipped for an admin and is made
\* against the group of the URL; the row is selected by its id alone.
get_checks(m, g, user) ==
    IF user.role # "admin" /\ <<g, user.user_id>> \notin members THEN "NotAMember"
    ELSE IF m \notin DOMAIN messages THEN "MessageNotFound"
    ELSE "ok"

\* The request of user u with the role Role[u]: the response carries the row.
Get(p) ==
    /\ Free(p)
    /\ nreq < MaxReqs
    /\ nreq' = nreq + 1
    /\ \E u \in Users, g \in Groups, m \in MsgIds :
         LET r   == [Request("get") EXCEPT !.user = u, !.group = g, !.mid = m]
             res == get_checks(m, g, User(u))
         IN  proc' = [proc EXCEPT ![p] =
                IF res = "ok"
                THEN Ended([r EXCEPT !.loaded = messages[m]], "ok")
                ELSE Ended(r, res)]
    /\ UNCHANGED <<messages, members, events, nextId>>

\* Reads of single messages next to the deletes and pins that change them.
ReadNext ==
    \E p \in Procs :
        \/ Get(p) /\ UNCHANGED <<wsvars, listing, receipts>>
        \/ DeleteLoad(p) /\ UNCHANGED <<wsvars, listing, receipts>>
        \/ DeleteCommit(p) /\ UNCHANGED <<wsvars, listing, receipts>>
        \/ PinLoad(p) /\ UNCHANGED <<wsvars, listing, receipts>>
        \/ PinCommit(p) /\ UNCHANGED <<wsvars, listing, receipts>>

ReadSpec == Init /\ [][ReadNext]_vars

----------------------------------------------------------------------------
(* The message history: GET /groups/{group_id}/messages                    *)

\* The values of the column created_at (models/message.py, line 25): the
\* microseconds since the service started.
Stamps == 0..MaxStamp

\* The microseconds of a second.
Second == 2

\* No datetime: the parameter `before` of get_messages is None.
NoTime == 0 - 1

\* datetime.isoformat(): seconds and microseconds, and the seconds alone
\* when the microseconds are zero.
isoformat(t) ==
    IF t % Second = 0 THEN <<t \div Second>> ELSE <<t \div Second, t % Second>>

\* The query parameter `before` as FastAPI hands it to list_messages.
parse_datetime(text) ==
    IF text = NoCursor THEN NoTime
    ELSE IF Len(text) = 1 THEN text[1] * Second
    ELSE text[1] * Second + text[2]

\* The cursor texts a client may send.
Cursors == {isoformat(t) : t \in Stamps}

\* A row of `messages` with its column created_at, which the model keeps
\* where the history is listed.
Stored(row, t) ==
    [f \in DOMAIN row \cup {"created_at"} |->
        IF f = "created_at" THEN t ELSE row[f]]

\* The clock: datetime.now() is not before the created_at of a stored row.
Now(rows) == {t \in Stamps : \A i \in DOMAIN rows : rows[i].created_at <= t}

\* Mutant of where: the filter on created_at is missing.
where_AnyTime(rows, g, before) ==
    {i \in DOMAIN rows : rows[i].group_id = g}

\* get_messages, lines 187-190: the rows the query selects.
where(rows, g, before) ==
    {i \in DOMAIN rows :
        /\ rows[i].group_id = g
        /\ before # NoTime => rows[i].created_at < before}

\* get_messages, line 192: order_by(created_at.desc()).  The database
\* returns rows of equal created_at in any order.
order_by_desc(rows, S) ==
    {s \in [1..Cardinality(S) -> S] :
        \A i, j \in 1..Cardinality(S) :
            i < j => /\ s[i] # s[j]
                     /\ rows[s[i]].created_at >= rows[s[j]].created_at}

\* .limit(n) of line 192 and the slice of line 199.
first(s, n) == SubSeq(s, 1, IF Len(s) < n THEN Len(s) ELSE n)

\* list.reverse(), line 201.
reverse(s) == [i \in 1..Len(s) |-> s[Len(s) + 1 - i]]

\* message_service.get_messages, lines 181-202: the results (messages,
\* has_more) the call may return.
get_messages(rows, g, limit, before) ==
    {LET fetched == first(s, limit + 1)
         has_more == Len(fetched) > limit
     IN  <<reverse(IF has_more THEN first(fetched, limit) ELSE fetched),
           has_more>> :
        s \in order_by_desc(rows, where(rows, g, before))}

\* Mutant of next_cursor: the created_at of the newest message of the page.
next_cursor_Newest(rows, page, has_more) ==
    IF has_more /\ Len(page) > 0
    THEN isoformat(rows[page[Len(page)]].created_at)
    ELSE NoCursor

\* api/messages.list_messages, line 62.
next_cursor(rows, page, has_more) ==
    IF has_more /\ Len(page) > 0
    THEN isoformat(rows[page[1]].created_at)
    ELSE NoCursor

\* Mutant of msg_map: the parents outside the page are not fetched.
msg_map_PageOnly(rows, page) == {page[i] : i \in DOMAIN page}

\* api/messages.list_messages, lines 64-73: the messages of the page, and
\* those a second query finds for the reply_to_id values not in the page.
msg_map(rows, page) ==
    LET inpage      == {page[i] : i \in DOMAIN page}
        missing_ids == {rows[k].reply_to_id : k \in
                           {k \in inpage : /\ rows[k].reply_to_id # NoReply
                                           /\ rows[k].reply_to_id \notin inpage}}
    IN  inpage \cup {k \in DOMAIN rows : k \in missing_ids}

\* The response fields of a message that is no reply, or whose parent was
\* not found.
NoProjection == [reply_to_content |-> None, reply_to_username |-> None]

\* Lines 75-83: the reply projection of each message of the page.
enriched(rows, page) ==
    [i \in DOMAIN page |->
        LET m == rows[page[i]]
        IN  IF m.reply_to_id # NoReply /\ m.reply_to_id \in msg_map(rows, page)
            THEN LET parent == rows[m.reply_to_id]
                 IN  [reply_to_content |->
                          IF ~parent.is_deleted THEN parent.content
                          ELSE "[Messaggio eliminato]",
                      reply_to_username |-> parent.sender_id]
            ELSE NoProjection]

\* The outcomes of ensure_user_in_default_group (group_service.py, lines
\* 58-102) for user u: u is a member already; the member row and the join
\* notice are stored; the flush fails; the commit fails after the event
\* system_message was sent.
Ensured(u) ==
    IF <<DefaultGroup, u>> \in members THEN {"member"}
    ELSE IF nextId <= MaxMsgs THEN {"joined", "flush_failed", "commit_failed"}
    ELSE {"flush_failed"}

\* api/messages.list_messages, lines 46-89: the whole request.  `chained`
\* tells that the client sends the next_cursor of its last response.
list_messages(u, g, limit, before, chained) ==
    \E joined \in Ensured(u) :
      \E rows \in IF joined = "joined"
                  THEN {messages @@ (nextId :>
                            Stored(create_system_message(DefaultGroup, "notice"), now)) :
                        now \in Now(messages)}
                  ELSE {messages} :
        LET call == [NoListing EXCEPT !.user = u, !.group = g,
                         !.limit = limit, !.before = before]
        IN  /\ messages' = rows
            /\ members' = IF joined = "joined"
                          THEN members \cup {<<DefaultGroup, u>>} ELSE members
            /\ nextId' = IF joined = "joined" THEN nextId + 1 ELSE nextId
            /\ events' = CASE joined = "joined" ->
                                  events \o <<[type |-> "system_message", mid |-> nextId],
                                              [type |-> "user_joined", mid |-> 0]>>
                           [] joined = "commit_failed" ->
                                  Emit("system_message", nextId)
                           [] OTHER -> events
            /\ IF joined \in {"flush_failed", "commit_failed"}
               THEN listing' = [call EXCEPT !.state = "StorageError"]
               ELSE IF ~is_admin(u) /\ <<g, u>> \notin members'
               THEN listing' = [call EXCEPT !.state = "NotAMember"]
               ELSE \E r \in get_messages(rows, g, limit, parse_datetime(before)) :
                      listing' =
                        [call EXCEPT
                           !.state = "ok",
                           !.page = r[1],
                           !.has_more = r[2],
                           !.next_cursor = next_cursor(rows, r[1], r[2]),
                           !.enriched = enriched(rows, r[1]),
                           !.seen = IF chained THEN r[1] \o listing.seen ELSE r[1],
                           !.start = IF chained THEN listing.start
                                     ELSE where(rows, g, NoTime),
                           !.fromStart = IF chained THEN listing.fromStart
                                         ELSE before = NoCursor]

\* The client asks for the history of group g: the newest page, or the page
\* before a cursor of its own.  One client walks through one history.
ListMessages(u, g, limit, before) ==
    /\ listing.state = "idle"
    /\ list_messages(u, g, limit, before, FALSE)
    /\ UNCHANGED <<proc, nreq, wsvars, receipts>>

\* The client asks for the next page with the cursor of its last response.
ListNextPage ==
    /\ listing.state = "ok"
    /\ listing.has_more
    /\ list_messages(listing.user, listing.group, listing.limit,
                     listing.next_cursor, TRUE)
    /\ UNCHANGED <<proc, nreq, wsvars, receipts>>

\* api/messages.send_message, lines 26-43, by a member of the default group
\* and of g, taken as one step between two pages of a client that pages
\* through a history: the row gets its created_at from the clock.
PagePost(u, g) ==
    /\ listing.state = "ok" /\ listing.has_more
    /\ nextId <= MaxMsgs
    /\ Cardinality({k \in DOMAIN events : events[k].type = "new_message"}) < MaxSends
    /\ <<DefaultGroup, u>> \in members
    /\ SendCheckResult(u, g, "text") = "ok"
    /\ \E now \in Now(messages) :
           messages' = messages @@ (nextId :> Stored(NewMessage(g, u, "a", "text"), now))
    /\ nextId' = nextId + 1
    /\ events' = Emit("new_message", nextId)
    /\ UNCHANGED <<members, proc, nreq, wsvars, listing, receipts>>

\* The histories a listing may start from: up to MaxRows messages sent by
\* the admin to the two groups, one after the other.  A later message of
\* the group of the first may be a reply to the first, and a first message
\* that has a reply may have been deleted since.
Histories ==
    UNION {{h \in [1..n -> [group_id : Groups, created_at : Stamps,
                            reply_to_id : {NoReply, 1}, is_deleted : BOOLEAN]] :
               /\ \A i, j \in 1..n : i < j => h[i].created_at <= h[j].created_at
               /\ \A i \in 1..n :
                     /\ h[i].reply_to_id # NoReply
                           => i > 1 /\ h[i].group_id = h[1].group_id
                     /\ h[i].is_deleted
                           => i = 1 /\ \E j \in 1..n : h[j].reply_to_id = 1} :
           n \in 0..MaxRows}

\* The row of a message of a history.
HistoryRow(r) ==
    [Stored(NewMessage(r.group_id, "admin", "a", "text"), r.created_at)
        EXCEPT !.reply_to_id = r.reply_to_id,
               !.is_deleted = r.is_deleted,
               !.content = IF r.is_deleted THEN Tombstone ELSE @]

PageInit ==
    /\ \E h \in Histories :
         /\ messages = [i \in DOMAIN h |-> HistoryRow(h[i])]
         /\ nextId = Len(h) + 1
    /\ members = InitMembers
    /\ events = << >>
    /\ proc = [p \in Procs |-> Idle]
    /\ nreq = 0
    /\ active_connections = NoConnections
    /\ conn = [h \in Handles |-> NewConn]
    /\ last = NoPub
    /\ listing = NoListing
    /\ receipts = {}

PageNext ==
    \/ \E u \in Users, g \in Groups, limit \in 1..MaxLimit,
          before \in {NoCursor} \cup Cursors :
           ListMessages(u, g, limit, before)
    \/ ListNextPage
    \/ \E u \in Users, g \in Groups : PagePost(u, g)

PageSpec == PageInit /\ [][PageNext]_vars

----------------------------------------------------------------------------
(* The two channels: one action served by the REST route and by the        *)
(* websocket handler from the same stored state.                           *)

\* core/config.py, line 12: the user name of the configured admin.
ADMIN_USERNAME == "admin"

\* The tokens the users hold, by their claims username and role: the
\* configured admin's token has the role admin or no role claim, the
\* others' tokens have the role user.
Tokens ==
    {t \in [username : Users, role : {"admin", "user", None}] :
        (t.username = ADMIN_USERNAME) = (t.role # "user")}

\* payload.get("role", "user").
role_claim(t) == IF t.role = None THEN "user" ELSE t.role

\* core/security.py, get_current_user, lines 33-50.
get_current_user(t) ==
    LET role == role_claim(t)
    IN  CurrentUser(t.username,
                    IF role # "admin" /\ t.username = ADMIN_USERNAME
                    THEN "admin" ELSE role)

\* core/security.py, decode_ws_token, lines 65-79.
decode_ws_token(t) == CurrentUser(t.username, role_claim(t))

\* The contents a client sends in an action, none of them empty.
ActionContents == {"a", " a ", " "}

\* str.strip(), on the contents above.
strip(c) == IF c = " a " THEN "a" ELSE IF c = " " THEN "" ELSE c

\* The actions: send_message to group g, edit_message and delete_message of
\* message m by a client connected to group g.
Actions ==
    [op : {"send"}, group : Groups, mid : {0}, content : ActionContents,
     mtype : SendTypes, reply : {NoReply, 1}]
    \cup [op : {"edit"}, group : Groups, mid : MsgIds \ {MaxMsgs},
          content : ActionContents, mtype : {None}, reply : {NoReply}]
    \cup [op : {"delete"}, group : Groups, mid : MsgIds \ {MaxMsgs},
          content : {None}, mtype : {None}, reply : {NoReply}]

\* The request of action a by `user` on a channel.
ActionRequest(a, user, channel) ==
    [Request(a.op) EXCEPT !.user = user.user_id, !.role = user.role,
                          !.channel = channel, !.group = a.group,
                          !.mid = a.mid, !.content = a.content,
                          !.mtype = a.mtype, !.reply = a.reply,
                          !.store = messages, !.roster = members]

\* The request r ends with result res and leaves the rows M.
Left(r, res, M) == Ended([r EXCEPT !.store = M], res)

\* The id of the next row of the rows M.
next_id(M) == Cardinality(DOMAIN M) + 1

\* message_service.send_message, edit_message (lines 114-136) and
\* delete_message (lines 151-176) for request r of `user`, when the database
\* does not fail: the result, and the rows it leaves of the rows M.
served(r, user, M) ==
    CASE r.op = "send" ->
           LET res == send_checks(user, r.group, r.mtype)
               rc  == IF res = "ok" THEN ReplyCheckResult(r.group, r.reply)
                      ELSE res
           IN  IF rc = "ok"
               THEN Left(r, "ok", M @@ (next_id(M) :> SentRow(r)))
               ELSE Left(r, rc, M)
      [] r.op = "edit" ->
           LET res == edit_checks(r.mid, user)
           IN  IF res = "ok"
               THEN Left(r, "ok", [M EXCEPT ![r.mid] = EditWrite(@, @, r.content)])
               ELSE Left(r, res, M)
      [] OTHER ->
           LET res == delete_checks(r.mid, user)
               w   == [M EXCEPT ![r.mid] = DeleteWrite(@, @)]
           IN  IF res # "ok" THEN Left(r, res, M)
               ELSE IF moderates(user, w[r.mid])
               THEN Left(r, "ok", w @@ (next_id(w) :>
                        create_system_message(w[r.mid].group_id, "notice")))
               ELSE Left(r, "ok", w)

\* api/messages.py: send_message (lines 26-43, with the join of
\* ensure_user_in_default_group first), edit_message (lines 129-138) and
\* delete_message (lines 141-149) for the bearer of token t.
rest(t, a) ==
    LET user == get_current_user(t)
        r    == ActionRequest(a, user, "rest")
        join == a.op = "send" /\ <<DefaultGroup, user.user_id>> \notin members
    IN  IF join
        THEN served([r EXCEPT !.roster = members \cup {<<DefaultGroup, user.user_id>>}],
                    user,
                    messages @@ (nextId :>
                        create_system_message(DefaultGroup, "notice")))
        ELSE served(r, user, messages)

\* websocket_chat, lines 119-207, for the connection opened with token t:
\* the content is stripped and an action without content is skipped.
ws(t, a) ==
    LET user == decode_ws_token(t)
        r    == ActionRequest(a, user, "ws")
        content == IF a.op = "delete" THEN a.content ELSE strip(a.content)
    IN  IF content = "" THEN Left(r, "skipped", messages)
        ELSE served([r EXCEPT !.content = content], user, messages)

\* The bearer of token t, who is a member of the group of the action and so
\* may hold a connection to it, has action a served on both channels.
OnBoth(t, a) ==
    /\ \A p \in Procs : proc[p].pc = "idle"
    /\ nreq < MaxReqs
    /\ nextId < MaxMsgs
    /\ <<a.group, t.username>> \in members
    /\ proc' = [p \in Procs |-> IF p = "s1" THEN rest(t, a) ELSE ws(t, a)]
    /\ nreq' = nreq + 1
    /\ UNCHANGED <<messages, members, events, nextId, wsvars, listing, receipts>>

\* What the action left on the channel of session p is stored.
Settle(p) ==
    /\ \A q \in Procs : proc[q].pc = "done"
    /\ messages' = proc[p].store
    /\ members' = proc[p].roster
    /\ nextId' = next_id(proc[p].store)
    /\ proc' = [q \in Procs |-> Idle]
    /\ UNCHANGED <<events, nreq, wsvars, listing, receipts>>

ChannelNext ==
    \/ \E t \in Tokens, a \in Actions : OnBoth(t, a)
    \/ \E p \in Procs : Settle(p)

ChannelSpec == Init /\ [][ChannelNext]_vars

----------------------------------------------------------------------------
(* Admission of a websocket (websocket_chat, lines 63-102)                 *)

\* No token parameter in the URL.
NoToken == << >>

\* What a client may put in the token parameter: nothing, or claims under
\* a signature that jwt.decode accepts ("signed") or refuses ("forged").
Presented == {NoToken} \cup {<<t, s>> : t \in Tokens, s \in {"signed", "forged"}}

\* Lines 65-73: the handler goes on with a user (decode_ws_token returns
\* None for a token that jwt.decode refuses).
admitted(token) == token # NoToken /\ token[2] = "signed"

\* The user of the handler, for a token that is admitted.
ws_user(token) == IF admitted(token) THEN decode_ws_token(token[1]).user_id ELSE None

\* Lines 91-102: accept, registration and the user_online call.
Enter(h, u, g) ==
    \E o \in StartPublish(register(active_connections, g, u, h),
                          [conn EXCEPT ![h].user = u, ![h].group = g,
                                       ![h].open = TRUE],
                          h, <<"user_online", 0>>, u, "online") :
        /\ active_connections' = o[1]
        /\ conn' = o[2]
        /\ last' = o[3]

\* Lines 66, 72 and 88: the websocket is closed and the handler returns; or
\* ensure_user_in_default_group raises and ends the handler before accept.
Refuse(h, u, g) ==
    /\ conn' = [conn EXCEPT ![h].user = u, ![h].group = g, ![h].pc = "ended"]
    /\ active_connections' = active_connections
    /\ last' = NoPub

\* websocket_chat, lines 63-102, for the token and the group of the URL.  A
\* user who is not a member of the default group is joined by
\* ensure_user_in_default_group (group_service, lines 58-102) in the
\* handler's own session: the member and the join notice are committed and
\* user_joined is sent, or the flush or the commit fails and the exception
\* ends the handler (after the commit failure system_message is out).
Admit(h, token, g) ==
    /\ conn[h].pc = "new"
    /\ \A x \in Handles : x < h => conn[x].pc # "new"
    /\ LET u == ws_user(token)
       IN  IF ~admitted(token)
           THEN Refuse(h, u, g) /\ UNCHANGED corevars
           ELSE IF <<g, u>> \in members
           THEN Enter(h, u, g) /\ UNCHANGED corevars
           ELSE IF g # DefaultGroup
           THEN Refuse(h, u, g) /\ UNCHANGED corevars
           ELSE \/ /\ nextId <= MaxMsgs
                   /\ members' = members \cup {<<g, u>>}
                   /\ messages' = messages @@ (nextId :>
                          create_system_message(DefaultGroup, "notice"))
                   /\ events' = events \o
                          <<[type |-> "system_message", mid |-> nextId],
                            [type |-> "user_joined", mid |-> 0]>>
                   /\ nextId' = nextId + 1
                   /\ Enter(h, u, g)
                   /\ UNCHANGED <<proc, nreq>>
                \/ /\ Refuse(h, u, g)
                   /\ UNCHANGED corevars
                \/ /\ nextId <= MaxMsgs
                   /\ Refuse(h, u, g)
                   /\ events' = Emit("system_message", nextId)
                   /\ nextId' = nextId + 1
                   /\ UNCHANGED <<messages, members, proc, nreq>>
    /\ UNCHANGED <<listing, receipts>>

AdmitNext ==
    \/ \E h \in Handles, token \in Presented, g \in Groups : Admit(h, token, g)
    \/ \E h \in Handles : Close(h)
    \/ \E h \in Handles : HandlerDisconnect(h)
    \/ \E h \in Handles : PubResume(h)

AdmitSpec == Init /\ [][AdmitNext]_vars

----------------------------------------------------------------------------
(* Properties *)

AuthErrors == {"NotAMember", "InsufficientPermissions", "MessageNotFound"}

\* In this step session p accepts a new request.
Arrives(p) == proc'[p].req # proc[p].req

\* In this step session p's call of send_message makes its checks.
SendChecks(p) ==
    \/ Arrives(p) /\ proc'[p].op = "send"
    \/ proc[p].pc = "send_check" /\ proc'[p].pc # "send_check"

\* Request r has ended with result res.
EndedWith(r, op, res) == r.op = op /\ r.pc = "done" /\ r.result = res

\* C1: every stored message with is_deleted = true has the tombstone literal
\* as content, under every interleaving of send, edit, delete and pin.
C1_DeletedIsTombstone ==
    \A m \in DOMAIN messages :
        messages[m].is_deleted => messages[m].content = Tombstone

\* C2: an editMessage that finds is_deleted = true fails with
\* MessageNotFound whoever calls it, changes no message and emits no event.
C2_EditDeletedRejected ==
    [][\A p \in Procs :
          (/\ Arrives(p)
           /\ proc'[p].op = "edit"
           /\ proc'[p].mid \in DOMAIN messages
           /\ messages[proc'[p].mid].is_deleted)
          => /\ proc'[p].pc = "done"
             /\ proc'[p].result = "MessageNotFound"
             /\ messages' = messages
             /\ events' = events]_vars

\* C2 witness: an admin's edit of a message that an earlier delete has
\* soft-deleted has ended with MessageNotFound.
C2_Witness ==
    \E p, q \in Procs :
        /\ EndedWith(proc[p], "edit", "MessageNotFound")
        /\ proc[p].user = "admin"
        /\ EndedWith(proc[q], "delete", "ok")
        /\ proc[q].mid = proc[p].mid
        /\ proc[q].req < proc[p].req
        /\ messages[proc[p].mid].is_deleted

\* C3: once a deleteMessage of m has succeeded, the row of m is present, has
\* is_deleted = true and has the tombstone literal as content, whatever
\* steps follow.
C3_DeletedStaysTombstone ==
    \A p \in Procs :
        EndedWith(proc[p], "delete", "ok")
        => /\ proc[p].mid \in DOMAIN messages
           /\ messages[proc[p].mid].is_deleted
           /\ messages[proc[p].mid].content = Tombstone

\* C4: when send_message makes its checks, a member who is no admin and
\* sends an admin_announcement gets InsufficientPermissions, a non-member
\* gets NotAMember, and neither creates a row or emits an event.
C4_SendRejected ==
    [][\A p \in Procs :
          SendChecks(p) =>
            LET r == proc'[p]
                member == <<r.group, r.user>> \in members
            IN  /\ (member /\ r.mtype = "admin_announcement" /\ Role[r.user] # "admin")
                      => EndedWith(r, r.op, "InsufficientPermissions")
                /\ ~member => EndedWith(r, r.op, "NotAMember")
                /\ r.pc = "done"
                      => messages' = messages /\ events' = events /\ nextId' = nextId]_vars

\* C4 witness: bob, member of g2 and no admin, was refused an
\* admin_announcement, and carol, member of nothing, a text.
C4_Witness ==
    \E p, q \in Procs :
        /\ EndedWith(proc[p], "send", "InsufficientPermissions")
        /\ proc[p].user = "bob" /\ proc[p].group = "g2"
        /\ proc[p].mtype = "admin_announcement"
        /\ EndedWith(proc[q], "send", "NotAMember")
        /\ proc[q].user = "carol" /\ proc[q].mtype = "text"

\* In this step session p accepts an edit or a delete of the stored message m
\* from a caller who is neither its sender nor an admin.
StrangerCalls(p, m) ==
    /\ Arrives(p)
    /\ proc'[p].op \in {"edit", "delete"}
    /\ proc'[p].mid = m
    /\ messages[m].sender_id # proc'[p].user
    /\ Role[proc'[p].user] # "admin"

\* C5 as stated: for a caller who is neither sender nor admin both
\* editMessage and deleteMessage fail with InsufficientPermissions and leave
\* the message unchanged.
C5_StrangerGetsInsufficientPermissions ==
    [][\A p \in Procs : \A m \in DOMAIN messages :
          StrangerCalls(p, m)
          => /\ EndedWith(proc'[p], proc'[p].op, "InsufficientPermissions")
             /\ messages' = messages]_vars

\* C5 amended: for such a caller both fail and leave every message
\* unchanged; the failure is InsufficientPermissions, except that
\* editMessage of an already deleted message fails with MessageNotFound.
C5_StrangerRejected ==
    [][\A p \in Procs : \A m \in DOMAIN messages :
          StrangerCalls(p, m)
          => /\ EndedWith(proc'[p], proc'[p].op,
                    IF proc'[p].op = "edit" /\ messages[m].is_deleted
                    THEN "MessageNotFound" ELSE "InsufficientPermissions")
             /\ messages' = messages
             /\ events' = events]_vars

\* C5 witness: bob's edit and carol's delete of the admin's announcement
\* were both refused with InsufficientPermissions.
C5_Witness ==
    \E p, q \in Procs :
        /\ EndedWith(proc[p], "edit", "InsufficientPermissions")
        /\ proc[p].user = "bob" /\ proc[p].mid = 2
        /\ EndedWith(proc[q], "delete", "InsufficientPermissions")
        /\ proc[q].user = "carol" /\ proc[q].mid = 2
        /\ messages[2] = InitMessages[2]

\* C6: a request that ends with NotAMember, InsufficientPermissions or
\* MessageNotFound has committed nothing and has emitted no event, the
\* POST .../messages request with its default-group join included.
C6_RejectionHasNoEffect ==
    \A p \in Procs :
        (proc[p].pc = "done" /\ proc[p].result \in AuthErrors)
        => ~proc[p].dirty /\ ~proc[p].emitted

\* In this step session p accepts an edit of the stored system message m.
SystemEditCalls(p, m) ==
    /\ Arrives(p)
    /\ proc'[p].op = "edit"
    /\ proc'[p].mid = m
    /\ messages[m].message_type = "system"

\* C7 as stated: editMessage of a message of kind system fails with
\* MessageNotFound for every caller.
C7_SystemEditNotFound ==
    [][\A p \in Procs : \A m \in DOMAIN messages :
          SystemEditCalls(p, m) => EndedWith(proc'[p], "edit", "MessageNotFound")]_vars

\* C7 amended: editMessage of a message of kind system fails for every
\* caller, admins included, with InsufficientPermissions (MessageNotFound if
\* the message is already deleted), and no step changes the content of a
\* system message to anything but the tombstone of a delete.
C7_SystemEditRejected ==
    [][/\ \A p \in Procs : \A m \in DOMAIN messages :
             SystemEditCalls(p, m)
             => /\ EndedWith(proc'[p], "edit",
                       IF messages[m].is_deleted
                       THEN "MessageNotFound" ELSE "InsufficientPermissions")
                /\ messages' = messages
                /\ events' = events
       /\ \A m \in DOMAIN messages :
             messages[m].message_type = "system"
             => messages'[m].content \in {messages[m].content, Tombstone}]_vars

\* C7 witness: the admin's edit of the creation notice of g2 was refused
\* with InsufficientPermissions.
C7_Witness ==
    \E p \in Procs :
        /\ EndedWith(proc[p], "edit", "InsufficientPermissions")
        /\ proc[p].user = "admin"
        /\ proc[p].mid = 1
        /\ messages[1] = InitMessages[1]

\* Request r is a delete by an admin of a message sent by somebody else.
IsModerationRequest(r) ==
    /\ r.op = "delete"
    /\ Role[r.user] = "admin"
    /\ r.pc \in {"delete_commit", "delete_sys_commit"}
    /\ r.loaded.sender_id \notin {None, r.user}

C9_FailureIsAtomic ==
    \A p \in Procs :
        (/\ proc[p].pc = "done"
         /\ proc[p].op \in {"send", "edit", "delete", "pin"}
         /\ proc[p].result # "ok")
        => ~proc[p].dirty

\* C10: every system_message or new_message event is for a row that is
\* stored, or that the request which emitted it is still about to commit.
C10_EventsHaveRows ==
    \A i \in DOMAIN events :
        events[i].type \in {"system_message", "new_message"}
        => \/ events[i].mid \in DOMAIN messages
           \/ \E p \in Procs :
                 /\ proc[p].pc \in {"ensure_commit", "delete_sys_commit"}
                 /\ proc[p].sysid = events[i].mid

----------------------------------------------------------------------------
(* Properties of the live connections *)

\* In this step the handler of websocket h registers it (lines 89-96).
Registers(h) == conn[h].pc = "new" /\ conn'[h].pc \notin {"new", "ended"}

\* The registered websockets that were opened for user u on group g.
HandlesOf(R, g, u) ==
    {x \in Handles : Registered(R, x) /\ conn[x].user = u /\ conn[x].group = g}

\* C11: when a websocket for (G, U) registers, the registry's entry for
\* (G, U) is that websocket, whatever was registered for (G, U) before; and
\* in every state the registry holds at most one websocket per (group,
\* user), under the key of the user and group it was opened for.
C11_SecondHandleReplaces ==
    /\ [](\A g \in DOMAIN active_connections :
            \A u \in DOMAIN active_connections[g] :
                /\ conn[active_connections[g][u]].user = u
                /\ conn[active_connections[g][u]].group = g
                /\ Cardinality(HandlesOf(active_connections, g, u)) <= 1)
    /\ [][\A h \in Handles :
            Registers(h) =>
                /\ conn'[h].group \in DOMAIN active_connections'
                /\ conn'[h].user \in DOMAIN active_connections'[conn'[h].group]
                /\ active_connections'[conn'[h].group][conn'[h].user] = h]_vars

\* C11 witness: two websockets were opened for bob on g2, both handlers
\* are running, and the registry holds the second.
C11_Witness ==
    /\ conn[1].user = "bob" /\ conn[1].group = "g2" /\ conn[1].pc = "recv"
    /\ conn[2].user = "bob" /\ conn[2].group = "g2" /\ conn[2].pc = "recv"
    /\ "g2" \in DOMAIN active_connections
    /\ DOMAIN active_connections["g2"] = {"bob"}
    /\ active_connections["g2"]["bob"] = 2

\* C12: the registry never holds a group key whose member map is empty,
\* whichever of register, the handler's unregister and the pruning of a
\* broadcast made the last change.
C12_NoEmptyGroupEntry ==
    \A g \in DOMAIN active_connections : DOMAIN active_connections[g] # {}

\* A call of _broadcast_to_group_ws has just ended with a failed delivery.
DeliveryFailed == last.state \in {"returned", "raised"} /\ last.failed # {}

\* C13: when a call of _broadcast_to_group_ws in which some delivery failed
\* has ended, it has returned normally, every websocket whose delivery
\* failed is out of the registry, and every other websocket that was
\* registered in the group when the call began, the excluded user's apart,
\* has taken the payload exactly once.
C13_FailingHandlesPruned ==
    DeliveryFailed =>
        /\ last.state = "returned"
        /\ \A x \in last.failed : ~Registered(active_connections, x)
        /\ \A x \in last.audience \ last.failed :
               conn[x].user # last.exclude => last.sent[x] = 1

\* C14: no call of _broadcast_to_group_ws ends by raising to its caller,
\* whatever the other handlers register and unregister while it is
\* suspended in a send; in particular the new_message call that follows a
\* committed send_message never raises into the handler's except clause
\* (lines 150-155), which reports the committed send as an error.
C14_PublishNeverRaises == last.state # "raised"

\* In this step a text message of user u to group g is committed with id m.
Sent(m, u, g) ==
    /\ m \notin DOMAIN messages
    /\ m \in DOMAIN messages'
    /\ messages'[m].sender_id = u
    /\ messages'[m].group_id = g
    /\ messages'[m].message_type = "text"

\* The websockets that are registered in group g and open, before and after
\* this step.
LiveIn(g) ==
    {x \in InGroup(active_connections, g) \cap InGroup(active_connections', g) :
        conn[x].open /\ conn'[x].open}

\* C15: once a text message of member A to group G is committed and its
\* fan-out is over, every websocket that stayed registered in G and open has
\* the new_message envelope if it is another user's and does not have it
\* if it is A's.  The fan-out of a send on the request/response channel is
\* over when the request returns; that of a send on the push channel when
\* the handler's new_message call ends.
C15_NewMessageFanout ==
    [][/\ \A m \in MsgIds, u \in Users, g \in Groups :
            (Sent(m, u, g) /\ last' = NoPub /\ conn' = conn) =>
                \A x \in LiveIn(g) :
                    conn[x].user # u => <<"new_message", m>> \in conn'[x].inbox
       /\ (last'.ctx = "send" /\ last'.state \in {"returned", "raised"}) =>
            \A x \in last'.audience \cap LiveIn(conn[last'.by].group) :
                <<"new_message", last'.ev[2]>> \in conn'[x].inbox
                    <=> conn[x].user # conn[last'.by].user]_vars

\* C16: the websocket of a handler that has terminated is out of the
\* registry, and so is every websocket to which a call of
\* _broadcast_to_group_ws that has ended attempted a delivery that failed:
\* a closed connection is deregistered by its handler's exit, or at the
\* latest by the first broadcast that fails to deliver to it.
C16_ClosedHandleDeregistered ==
    /\ \A h \in Handles :
           conn[h].pc \in {"ended", "crashed"} => ~Registered(active_connections, h)
    /\ last.state \in {"returned", "raised"} =>
           \A x \in last.failed : ~Registered(active_connections, x)

----------------------------------------------------------------------------
(* Properties of the message history *)

\* The created_at of the k-th message of the page of the last response.
PageTime(k) == messages[listing.page[k]].created_at

\* C17: in every page list_messages returns for a group, a limit and a
\* cursor, a message with the smaller created_at comes before one with the
\* greater created_at, every message belongs to the group asked for, and,
\* when a cursor was given, is strictly older than the cursor.
C17_PageOrderedAndFiltered ==
    listing.state = "ok" =>
        /\ \A i, j \in 1..Len(listing.page) :
               PageTime(i) < PageTime(j) => i < j
        /\ \A k \in 1..Len(listing.page) :
               /\ messages[listing.page[k]].group_id = listing.group
               /\ listing.before # NoCursor =>
                      PageTime(k) < parse_datetime(listing.before)

\* C17 witness: a page of two messages of different created_at, asked for
\* with a cursor, while the group holds a message that is not older than
\* the cursor and the other group holds a message too.
C17_Witness ==
    /\ listing.state = "ok"
    /\ listing.before # NoCursor
    /\ Len(listing.page) = 2
    /\ PageTime(1) # PageTime(2)
    /\ \E i, j \in DOMAIN messages :
           /\ messages[i].group_id = listing.group
           /\ messages[i].created_at >= parse_datetime(listing.before)
           /\ messages[j].group_id # listing.group

\* The messages of the listed group that are older than the oldest entry
\* of the page of the last response.
OlderThanPage ==
    {i \in DOMAIN messages :
        /\ messages[i].group_id = listing.group
        /\ messages[i].created_at < PageTime(1)}

\* C18: list_messages with limit L returns at most L messages, and has_more
\* is true exactly when the group holds a message older than the oldest
\* entry of the page, also when several messages share the created_at of
\* that entry.
C18_LimitAndHasMore ==
    listing.state = "ok" =>
        /\ Len(listing.page) <= listing.limit
        /\ Len(listing.page) > 0 => (listing.has_more <=> OlderThanPage # {})

\* The client began without a cursor and its last response says that
\* nothing more is to be had.
WalkEnded ==
    listing.state = "ok" /\ listing.fromStart /\ ~listing.has_more

\* How often the pages of the walk have shown message i.
Visits(i) == Cardinality({k \in 1..Len(listing.seen) : listing.seen[k] = i})

\* C19: a client that starts without a cursor and calls list_messages with
\* each next_cursor it gets until has_more is false has seen every message
\* the group held when it started exactly once, for every limit and all
\* created_at values, equal ones across a page boundary included.
C19_WalkVisitsAllOnce ==
    WalkEnded =>
        /\ \A i \in listing.start : Visits(i) = 1
        /\ \A i \in DOMAIN messages : Visits(i) <= 1

\* C20: the response of list_messages carries a next_cursor exactly when
\* has_more is true, and that cursor is the created_at of the first message
\* of the page, which is the oldest of the page.
C20_NextCursorIsOldest ==
    listing.state = "ok" =>
        /\ listing.next_cursor # NoCursor <=> listing.has_more
        /\ listing.has_more =>
               /\ listing.next_cursor = isoformat(PageTime(1))
               /\ parse_datetime(listing.next_cursor) = PageTime(1)
               /\ \A k \in 1..Len(listing.page) : PageTime(1) <= PageTime(k)

\* C20 witness: a response with has_more whose page holds two messages of
\* different created_at, the older with microseconds in its created_at.
C20_Witness ==
    /\ listing.state = "ok"
    /\ listing.has_more
    /\ Len(listing.page) = 2
    /\ PageTime(1) < PageTime(2)
    /\ PageTime(1) % Second # 0
    /\ listing.next_cursor = isoformat(PageTime(1))

----------------------------------------------------------------------------
(* Properties of read receipts and pins *)

\* In this step session p's call of mark_messages_read arrives or goes on.
Marks(p) == proc'[p].op = "mark" /\ proc'[p] # proc[p]

\* Every id of the list of request r has a committed receipt of r's user: an
\* earlier mark_messages_read with the same arguments has returned.
AllMarked(r) == \A k \in 1..Len(r.ids) : <<r.ids[k], r.user>> \in receipts

\* In this step a call goes on whose arguments were all marked before it
\* created anything.
Repeats(p) ==
    /\ Marks(p)
    /\ AllMarked(proc'[p])
    /\ Arrives(p) \/ proc[p].pending \cup proc[p].flushed = {}

\* The unread counts of all groups and users.
UnreadCounts == [g \in Groups, u \in Users |-> get_unread_count(g, u)]

\* C21: markRead with arguments that an earlier call has already marked
\* creates no receipt, returns the empty list and leaves the receipts and
\* every unread count as they were; and no operation ever removes a receipt.
C21_MarkReadIdempotent ==
    [][/\ receipts \subseteq receipts'
       /\ \A p \in Procs :
            Repeats(p)
            => /\ proc'[p].pending = {} /\ proc'[p].flushed = {}
               /\ proc'[p].pc = "done" => proc'[p].result = "ok"
               /\ proc'[p].at = Len(proc'[p].ids) => proc'[p].pc = "done"
               /\ receipts' = receipts
               /\ UnreadCounts' = UnreadCounts]_vars

\* C21 witness: a call has created receipts for two messages, and a later
\* call of the same user with the same list has returned the empty list.
C21_Witness ==
    \E p, q \in Procs :
        /\ EndedWith(proc[q], "mark", "ok")
        /\ Cardinality(proc[q].flushed) = MaxMarks
        /\ EndedWith(proc[p], "mark", "ok")
        /\ proc[p].user = proc[q].user /\ proc[p].ids = proc[q].ids
        /\ proc[q].req < proc[p].req
        /\ proc[p].flushed = {}

\* The message ids of the list of request r.
IdsOf(r) == {r.ids[k] : k \in 1..Len(r.ids)}

\* C22: of two markRead calls of one user with overlapping ids of stored
\* messages, served by two sessions at once, neither ends in an error
\* raised by the other's insert (the receipts hold a pair once by the
\* unique constraint).
C22_ConcurrentMarksSucceed ==
    \A p, q \in Procs :
        (/\ p # q
         /\ proc[p].op = "mark" /\ proc[q].op = "mark"
         /\ proc[p].user = proc[q].user
         /\ IdsOf(proc[p]) \cap IdsOf(proc[q]) # {}
         /\ IdsOf(proc[p]) \cup IdsOf(proc[q]) \subseteq DOMAIN messages
         /\ proc[p].pc = "done")
        => proc[p].result \notin {"IntegrityError", "DeadlockDetected"}

\* The messages of group g that are not deleted and have no receipt of u.
Unread(g, u) ==
    {m \in DOMAIN messages :
        /\ messages[m].group_id = g
        /\ ~messages[m].is_deleted
        /\ ~(\E x \in receipts : x = <<m, u>>)}

\* C23: the unread count of (G, U) is always the number of messages of G
\* that are not deleted and have no receipt of U; so the commit that
\* soft-deletes an unread message lowers it by one, the commit that stores
\* a message of U raises the count of U too, and it is 0 once U has marked
\* every message of G that is not deleted.
C23_UnreadCount ==
    /\ [](\A g \in Groups, u \in Users :
            /\ get_unread_count(g, u) = Cardinality(Unread(g, u))
            /\ (\A m \in DOMAIN messages :
                   (messages[m].group_id = g /\ ~messages[m].is_deleted)
                   => <<m, u>> \in receipts)
               => get_unread_count(g, u) = 0)
    /\ [][\A g \in Groups, u \in Users :
            /\ \A m \in Unread(g, u) :
                   (messages'[m].is_deleted /\ DOMAIN messages' = DOMAIN messages)
                   => get_unread_count(g, u)' = get_unread_count(g, u) - 1
            /\ \A m \in DOMAIN messages' \ DOMAIN messages :
                   (messages'[m].group_id = g /\ messages'[m].sender_id = u)
                   => get_unread_count(g, u)' = get_unread_count(g, u) + 1]_vars

\* C23 witness: bob has marked the only message of g2, which the admin has
\* not, and the only message of the default group has been deleted.
C23_Witness ==
    /\ \E p \in Procs :
          EndedWith(proc[p], "mark", "ok") /\ proc[p].user = "bob"
    /\ \E q \in Procs : EndedWith(proc[q], "delete", "ok")
    /\ get_unread_count("g2", "bob") = 0
    /\ get_unread_count("g2", "admin") = 1
    /\ \E m \in DOMAIN messages :
          messages[m].group_id = DefaultGroup /\ messages[m].is_deleted
    /\ get_unread_count(DefaultGroup, "bob") = 0

\* In this step session p's toggle_pin_message of message m has committed
\* and returned.
Toggles(p, m) ==
    /\ proc[p].pc = "pin_commit"
    /\ proc[p].mid = m
    /\ EndedWith(proc'[p], "pin", "ok")

\* C24: togglePin by a member of the group, author or not, on a message of
\* the group that is not deleted flips is_pinned, sets pinned_at and
\* pinned_by when it pins and clears both when it unpins (so that a second
\* toggle restores the unpinned values), and emits message_pinned; a
\* non-member gets NotAMember, and a member gets MessageNotFound for a
\* message that is absent, deleted or of another group.
C24_TogglePin ==
    [][\A p \in Procs :
         /\ (Arrives(p) /\ proc'[p].op = "pin") =>
              LET r == proc'[p]
                  member == <<r.group, r.user>> \in members
                  found == /\ r.mid \in DOMAIN messages
                           /\ messages[r.mid].group_id = r.group
                           /\ ~messages[r.mid].is_deleted
              IN  /\ ~member => EndedWith(r, "pin", "NotAMember")
                  /\ (member /\ ~found) => EndedWith(r, "pin", "MessageNotFound")
                  /\ (member /\ found) => r.pc = "pin_commit"
                  /\ messages' = messages /\ events' = events
         /\ \A m \in DOMAIN messages :
              Toggles(p, m) =>
                /\ messages'[m].is_pinned = ~messages[m].is_pinned
                /\ messages'[m].is_pinned =>
                      /\ messages'[m].pinned_at # None
                      /\ messages'[m].pinned_by = proc[p].user
                /\ ~messages'[m].is_pinned =>
                      /\ messages'[m].pinned_at = None
                      /\ messages'[m].pinned_by = None
                /\ events' = Emit("message_pinned", m)]_vars

----------------------------------------------------------------------------
(* Properties of replies, frames and failures *)

\* In this step session p's call of send_message makes its checks and the
\* call carries a reply_to_id.
ReplyChecks(p) ==
    /\ SendChecks(p)
    /\ proc'[p].reply # NoReply

\* The reply_to_id resolves to a stored message of group g, deleted or not.
Resolves(reply, g) ==
    reply \in DOMAIN messages /\ messages[reply].group_id = g

\* Every stored message with reply_to_id set references a stored message of
\* its own group.
RepliesResolve ==
    \A m \in DOMAIN messages :
        messages[m].reply_to_id # NoReply
        => Resolves(messages[m].reply_to_id, messages[m].group_id)

Columns == DOMAIN NewMessage(None, None, None, None)
Immutable == {"group_id", "sender_id", "message_type", "reply_to_id"}

\* In this step session p's call of op takes a step.
Steps(p, op) == proc'[p] # proc[p] /\ proc'[p].op = op

\* The step changes at most the columns cols of message m, and no column of
\* another stored message.
ChangesOnly(m, cols) ==
    \A k \in DOMAIN messages :
        \A f \in Columns :
            messages'[k][f] # messages[k][f] => k = m /\ f \in cols

Answers == listing' # listing /\ listing'.state = "ok"

\* C27: in every response of list_messages each message of the page whose
\* reply_to_id is set and whose parent is stored carries the parent's sender
\* name as reply_to_username and, as reply_to_content, the parent's content
\* or the tombstone literal when the parent is deleted, whether the parent
\* is in the page or not; the request changes no stored message.
C27_ReplyProjection ==
    [][Answers =>
         /\ DOMAIN listing'.enriched = DOMAIN listing'.page
         /\ \A i \in DOMAIN listing'.page :
               LET m == messages'[listing'.page[i]]
               IN  (m.reply_to_id # NoReply /\ m.reply_to_id \in DOMAIN messages')
                   => LET parent == messages'[m.reply_to_id]
                      IN  /\ listing'.enriched[i].reply_to_username = parent.sender_id
                          /\ listing'.enriched[i].reply_to_content =
                                IF parent.is_deleted THEN Tombstone
                                ELSE parent.content
         /\ \A k \in DOMAIN messages : messages'[k] = messages[k]]_vars

\* C27 witness: a page of two messages holds a reply whose parent, message
\* 1, is deleted and is not in the page; the response carries the tombstone
\* and the admin's name for it.
C27_Witness ==
    /\ listing.state = "ok"
    /\ Len(listing.page) = 2
    /\ \E i \in DOMAIN listing.page :
          /\ messages[listing.page[i]].reply_to_id = 1
          /\ \A j \in DOMAIN listing.page : listing.page[j] # 1
          /\ messages[1].is_deleted
          /\ listing.enriched[i] = [reply_to_content |-> Tombstone,
                                    reply_to_username |-> "admin"]

\* The words by which the text of a failure tells that the storage is full.
CapacityWords == {"disk", "storage", "space", "quota"}

\* The failure carries a capacity signal.
CapacitySignal(e) == \E w \in CapacityWords : contains(lower(e), w)

\* The call of session p was a send, edit, delete or pin that ended with a
\* failure of the database.
StorageFailed(p) ==
    /\ proc[p].pc = "done"
    /\ proc[p].op \in {"send", "rest_send", "edit", "delete", "pin"}
    /\ proc[p].error # << >>

\* C28: a send, edit, delete or pin that ends with a failure of the
\* database ends with StorageExhausted (StorageLimitError in the code) when
\* the failure carries a capacity signal and with StorageUnavailable
\* otherwise, never with the exception of the database itself, and nothing
\* the call wrote stays stored.
C28_FailuresClassified ==
    \A p \in Procs :
        StorageFailed(p)
        => /\ proc[p].result = IF CapacitySignal(proc[p].error)
                               THEN "StorageLimitError"
                               ELSE "StorageUnavailable"
           /\ ~proc[p].dirty

\* In this step handler h's action fails: a frame of BadFrames, or the
\* exception of its new_message call of _broadcast_to_group_ws inside the
\* try of send_message, while its own socket is open.
ActionFails(h) ==
    /\ last'.by = h
    /\ \/ last'.ctx = "frame"
       \/ last'.ctx = "send" /\ last'.state = "raised" /\ conn[h].open

\* C29: when an action of handler h fails, the handler sends the error
\* envelope to its own socket and waits for the next frame with the socket
\* open and, if it was registered, still registered, and no other websocket
\* is sent anything by the failed action.
C29_ActionFailureKeepsConnection ==
    [][\A h \in Handles :
          ActionFails(h)
          => /\ conn'[h].pc = "recv"
             /\ conn'[h].open
             /\ Registered(active_connections, h)
                   => Registered(active_connections', h)
             /\ \A x \in Handles \ {h} : last'.sent[x] = 0]_vars

\* One action of one caller was served on both channels from this state.
ServedOnBoth ==
    /\ proc["s1"].channel = "rest" /\ proc["s1"].pc = "done"
    /\ proc["s2"].channel = "ws" /\ proc["s2"].pc = "done"

\* C30: an action of a caller, served on both channels from the same stored
\* state, is accepted on the push channel exactly if it is accepted on the
\* request/response channel, both leave the same messages and members, and
\* both give the caller the same role.
C30_ChannelsAgree ==
    ServedOnBoth
    => /\ (proc["s2"].result = "ok") = (proc["s1"].result = "ok")
       /\ proc["s2"].store = proc["s1"].store
       /\ proc["s2"].roster = proc["s1"].roster
       /\ proc["s2"].role = proc["s1"].role

----------------------------------------------------------------------------
(* Properties of system messages, access and moderation *)

\* The system_message events emitted for message m.
SystemEvents(m) ==
    {i \in DOMAIN events : events[i] = [type |-> "system_message", mid |-> m]}

\* The messages stored since the service started.
Created == DOMAIN messages \ DOMAIN InitMessages

\* C31: the row create_system_message adds is stored with kind system, no
\* sender, is_deleted and is_edited false, and exactly one system_message
\* event is emitted for it.
C31_SystemMessage ==
    /\ [][\A m \in DOMAIN messages' \ DOMAIN messages :
             (\E i \in DOMAIN events' :
                 events'[i] = [type |-> "system_message", mid |-> m])
             => /\ messages'[m].message_type = "system"
                /\ messages'[m].sender_id = None
                /\ ~messages'[m].is_deleted
                /\ ~messages'[m].is_edited]_vars
    /\ [](\A m \in MsgIds :
             /\ Cardinality(SystemEvents(m)) <= 1
             /\ (m \in Created /\ messages[m].message_type = "system")
                   => Cardinality(SystemEvents(m)) = 1)

\* C31 witness: the notice of a moderation in g2 is stored as a system
\* message without sender, with its one system_message event.
C31_Witness ==
    \E m \in Created :
        /\ messages[m].message_type = "system"
        /\ messages[m].sender_id = None
        /\ messages[m].group_id = "g2"
        /\ Cardinality(SystemEvents(m)) = 1

\* In this step the handler of websocket h enters its finally block.
Leaves(h) ==
    /\ conn[h].pc \in {"recv", "publishing"}
    /\ conn[h].pub.ctx # "offline"
    /\ \/ conn'[h].pc = "ended"
       \/ conn'[h].pc = "publishing" /\ conn'[h].pub.ctx = "offline"

\* In this step the registry loses its entry for user u in group g.
EntryRemoved(g, u) ==
    /\ g \in DOMAIN active_connections
    /\ u \in DOMAIN active_connections[g]
    /\ g \in DOMAIN active_connections' => u \notin DOMAIN active_connections'[g]

\* C32: the registry loses its entry for (G, U) only when the websocket it
\* holds for (G, U) is closed or its own handler terminates: neither the
\* exit of the handler of a websocket that was replaced nor a broadcast
\* that failed on the replaced websocket removes the websocket that
\* replaced it.
C32_OnlyCurrentHandleRemoved ==
    [][\A g \in Groups, u \in Users :
          EntryRemoved(g, u)
          => LET h == active_connections[g][u]
             IN  ~conn[h].open \/ Leaves(h)]_vars

\* C33: every message_edited or message_deleted envelope a websocket has
\* been sent is about a message of the group the websocket is registered
\* for.
C33_EventsStayInGroup ==
    \A h \in Handles : \A ev \in conn[h].inbox :
        ev[1] \in {"message_edited", "message_deleted"}
        => messages[ev[2]].group_id = conn[h].group

\* C34: a user who is not an admin is answered with a message by get only when
\* they are a member of the group the message belongs to.
C34_GetNeedsMembershipOfOwnGroup ==
    [][\A p \in Procs :
         (/\ Steps(p, "get")
          /\ EndedWith(proc'[p], "get", "ok")
          /\ ~is_admin(proc'[p].user))
         => <<proc'[p].loaded.group_id, proc'[p].user>> \in members]_vars

\* C35: no message is both deleted and pinned: a deleted message has
\* is_pinned false and neither pinned_at nor pinned_by.
C35_DeletedNotPinned ==
    \A m \in DOMAIN messages :
        messages[m].is_deleted
        => /\ ~messages[m].is_pinned
           /\ messages[m].pinned_at = None
           /\ messages[m].pinned_by = None

\* C36: a delete of a message that was already deleted when the call loaded
\* it changes no row, adds no message and sends no event.
C36_RepeatedDeleteHasNoEffect ==
    [][\A p \in Procs :
          (/\ proc[p].pc = "delete_commit"
           /\ proc[p].loaded.is_deleted
           /\ proc'[p] # proc[p])
          => /\ messages' = messages
             /\ events' = events
             /\ nextId' = nextId]_vars

\* A delete of process p returns successfully in this step.
DeleteSucceeds(p) ==
    /\ proc[p].op = "delete"
    /\ proc[p].pc \in {"delete_commit", "delete_sys_commit"}
    /\ EndedWith(proc'[p], "delete", "ok")

\* C37: a delete that succeeds has added a system message to the group of
\* the deleted message exactly when the caller is an admin and the message
\* has a sender who is not the caller; otherwise it adds no message.  A
\* delete by a user who is not an admin never succeeds on a system message.
C37_NoticeIffModeration ==
    [][\A p \in Procs :
          DeleteSucceeds(p)
          => LET r   == proc'[p]
                 row == messages'[r.mid]
                 byAdmin == Role[r.user] = "admin"
                 others  == row.sender_id # None /\ row.sender_id # r.user
             IN  /\ (byAdmin /\ others)
                    => /\ r.sysid \in DOMAIN messages'
                       /\ messages'[r.sysid].message_type = "system"
                       /\ messages'[r.sysid].group_id = row.group_id
                       /\ [type |-> "system_message", mid |-> r.sysid]
                              \in {events'[i] : i \in DOMAIN events'}
                 /\ ~(byAdmin /\ others)
                    => /\ DOMAIN messages' = DOMAIN messages
                       /\ \A i \in DOMAIN events' \ DOMAIN events :
                              events'[i].type # "system_message"
                 /\ ~byAdmin => row.message_type # "system"]_vars

\* C37 witness: the admin's delete of bob's message has returned and the
\* store holds the two initial rows, bob's message and the notice.
C37_Witness ==
    \E p \in Procs :
        /\ EndedWith(proc[p], "delete", "ok")
        /\ proc[p].user = "admin"
        /\ messages[proc[p].mid].sender_id = "bob"
        /\ proc[p].sysid \in DOMAIN messages
        /\ messages[proc[p].sysid].message_type = "system"
        /\ Cardinality(DOMAIN messages) = 4

\* The processes whose toggle of the pin of message m has returned.
Toggled(m) == {p \in Procs : EndedWith(proc[p], "pin", "ok") /\ proc[p].mid = m}

\* C38: when every request accepted so far was a toggle of the pin of m that
\* returned successfully, is_pinned of m is its initial value flipped once
\* per toggle, and pinned_by is set exactly when m is pinned.
C38_TogglesCompose ==
    \A m \in DOMAIN InitMessages :
        LET n == Cardinality(Toggled(m))
        IN  n = nreq
            => /\ messages[m].is_pinned =
                      (IF n % 2 = 1 THEN ~InitMessages[m].is_pinned
                                    ELSE InitMessages[m].is_pinned)
               /\ (messages[m].pinned_by # None) = messages[m].is_pinned

\* Websocket h is refused in this step.
Refused(h) == conn[h].pc = "new" /\ conn'[h].pc = "ended"

\* The handler of the registered websocket h terminates in this step.
Terminates(h) ==
    /\ conn[h].pc \notin {"new", "ended", "crashed"}
    /\ conn'[h].pc \in {"ended", "crashed"}

\* The handler of h is in its finally block: it terminates from its
\* user_offline call, or with nobody left to tell.
ThroughFinally(h) ==
    \/ conn[h].pc = "publishing" /\ conn[h].pub.ctx = "offline"
    \/ conn[h].pc = "recv" /\ conn'[h].pc = "ended"

\* A websocket is registered only for the user of a valid token who is then
\* a member of the group; a refused websocket is not in the registry, no
\* call of _broadcast_to_group_ws is made for it and the registry and the
\* other websockets are as they were.
Admission(h) ==
    /\ Registers(h)
       => /\ conn'[h].user \in Users
          /\ <<conn'[h].group, conn'[h].user>> \in members'
    /\ Refused(h)
       => /\ active_connections' = active_connections
          /\ ~Registered(active_connections', h)
          /\ conn'[h].pub = NoPub
          /\ last'.state = "none"
          /\ \A x \in Handles \ {h} : conn'[x] = conn[x]

\* C39: every websocket is admitted or refused as Admission says, and a
\* registered websocket whose handler terminates has gone through its
\* finally block, with its user_offline call, and is out of the registry.
C39_AdmissionAndExit ==
    [][\A h \in Handles :
          /\ Admission(h)
          /\ Terminates(h)
             => /\ ThroughFinally(h)
                /\ ~Registered(active_connections', h)]_vars


====
